---- MODULE Spec2Model ----
(***************************************************************************)
(* Backend server of the RR Rural Fermentation system (src/unnamed/        *)
(* part_004, the Node.js server that owns the SQLite store, the MQTT       *)
(* ingestion loop, the capture-session gate and the WebSocket fan-out).    *)
(*                                                                         *)
(* Encoding.  Pressures are in tenths of a bar (1.5 bar = 15), temperatures*)
(* in whole degrees Celsius.  A numeric field that is absent from a        *)
(* payload (JavaScript undefined) is UNDEFINED, a JSON null is NULLV; both *)
(* are negative so they never collide with a measured value.  Textual      *)
(* fields use the strings "undefined" and "null".                          *)
(*                                                                         *)
(* The SQLite handle is used in node-sqlite3's default (parallel) mode:    *)
(* a statement handed to stmt.run()/db.run() completes, and its callback   *)
(* runs, at some later turn of the event loop, in no guaranteed order with *)
(* respect to the other statements in flight.  `pending` is the set of     *)
(* statements in flight; one Db* action completes one of them.             *)
(***************************************************************************)
EXTENDS Integers, Sequences, FiniteSets, TLC

\* ---------------------------------------------------------------- bounds
MaxMsgs == 2          \* Readings handled (every specification)
MaxOps == 2           \* HTTP commands handled (Spec, SpecIngest, SpecAlerts, SpecExport)
MaxTicks == 2         \* firings of the CSV export timer (SpecExport)
MaxClients == 2       \* WebSocket connections accepted (SpecSubscribers)

\* ------------------------------------------------------ program constants
UNDEFINED == -1
NULLV == -2
RELIEF_THRESHOLD == 15
MAX_PRESSURE == 20
MIN_PRESSURE == 5
TEMPERATURE_MIN == 30
TEMPERATURE_MAX == 45
HARD_CEILING == 25
ALERT_MEMORY == 100
INITIAL_ALERTS == 10
EXPORT_INTERVAL == 2      \* 5 * 60 * 1000 ms; one unit of time is 2.5 minutes
BOOT_TIME == 2            \* Date.now() when scheduleCsvAutoExport runs

\* ------------------------------------------------------------ input sets
MsgIds == {"a", "b"}
Flasks == {1, 2}
AssayIds == {"X"}
OtherAssay == "Y"     \* an assay_id a message carries besides those of AssayIds
Pressures == {16, 26}
Temps == {39, 50, UNDEFINED}
CorePressures == {16}
CoreReadings == {<<"a", 1>>, <<"b", 2>>, <<"a", 2>>}   \* <<msg_id, flask_id>>
Stations == Flasks \cup {0}       \* flask_id values seen by the server
ManualSeverities == {"undefined", "critical"}   \* severity in the body of POST /api/alerts

VARIABLES
    telemetryCaptureEnabled,   \* let telemetryCaptureEnabled
    currentCaptureSessionId,   \* let currentCaptureSessionId (0 = null)
    alertConfig,               \* let alertConfig
    simulatorProcess,          \* let simulatorProcess (FALSE = null)
    systemState,               \* systemState.isRunning / currentAssay / assays
    flaskStates,               \* const flaskStates = new Map()
    telemetry,                 \* table telemetry (row id = index)
    alertsTable,               \* table alerts (row id = index)
    alerts,                    \* const alerts = [] (saved alerts kept in memory)
    capture_sessions,          \* table capture_sessions (row id = index)
    pending,                   \* statements handed to SQLite, not yet completed
    taskkill,                  \* exec('taskkill ...') callbacks not yet run
    platform,                  \* process.platform
    wsLog,                     \* messages handed to broadcastToWebSocket, in order
    mqttOut,                   \* messages handed to mqttClient.publish, in order
    received,                  \* history: one entry per Reading handled
    nOps,                      \* history: administrative commands handled
    nOpens,                    \* calls of openCaptureSession so far; stands for the
                               \* wall clock in started_at / stopped_at
    clock,                     \* Date.now() at the latest firing of the export timer
    lastCsvExportAt,           \* let lastCsvExportAt
    csvFiles,                  \* files written to CSV_EXPORT_DIR, in order
    exportRuns,                \* history: one entry per firing of the export timer
    clients,                   \* wss.clients, in order of connection, with what each was sent
    errorLog,                  \* console.error lines of failed store writes
    loopRunning,               \* the process is alive and mqttClient.on('message') is served
    alert_config,              \* table alert_config, the row id = 1
    configLog,                 \* history: one entry per POST /api/alerts/config
    fermentation_data,         \* src/api/server.js: table fermentation_data (msg_id UNIQUE)
    apiAlerts,                 \* src/api/server.js: table alerts
    ioLog,                     \* src/api/server.js: events handed to io.emit, in order
    apiPending,                \* src/api/server.js: statements handed to SQLite, not yet completed
    apiReceived                \* history: one entry per telemetry message src/api/server.js handled

vars == <<telemetryCaptureEnabled, currentCaptureSessionId, alertConfig,
          simulatorProcess, systemState, flaskStates, telemetry, alertsTable,
          alerts, capture_sessions, pending, taskkill, platform, wsLog, mqttOut,
          received, nOps, nOpens, clock, lastCsvExportAt, csvFiles, exportRuns,
          clients, errorLog, loopRunning, alert_config, configLog,
          fermentation_data, apiAlerts, ioLog, apiPending, apiReceived>>

\* The state of the CSV exporter.
exporter == <<clock, lastCsvExportAt, csvFiles, exportRuns>>

\* The error log and the liveness of the process.
health == <<errorLog, loopRunning>>

\* The persisted alert configuration and the history of its updates.
config == <<alert_config, configLog>>

\* The state of the alternate API server, src/api/server.js.
api == <<fermentation_data, apiAlerts, ioLog, apiPending, apiReceived>>

\* The state of the main server.
mainServer ==
    <<telemetryCaptureEnabled, currentCaptureSessionId, alertConfig,
      simulatorProcess, systemState, flaskStates, telemetry, alertsTable,
      alerts, capture_sessions, pending, taskkill, platform, wsLog, mqttOut,
      received, nOps, nOpens, exporter, clients, health, config>>

\* ------------------------------------------------------------- payloads
\* The object JSON.parse returns for a telemetry message.
Payload(m, f, p, t) ==
    [msg_id |-> m, assay_id |-> "X", flask_id |-> f, ts |-> 1,
     P_bar_abs |-> p, T_C |-> t, C |-> UNDEFINED, degC |-> UNDEFINED,
     timestamp |-> UNDEFINED, accum_bar_per_h |-> UNDEFINED,
     accum_bar_per_hr |-> UNDEFINED, P_bar_std |-> UNDEFINED,
     relief_count |-> UNDEFINED, event |-> "undefined"]

Absent(v) == v = UNDEFINED \/ v = NULLV

\* JavaScript `v ?? d`
Coalesce(v, d) == IF Absent(v) THEN d ELSE v

\* JavaScript `v || 0` on a count
OrZero(v) == IF Absent(v) THEN 0 ELSE v

\* normalizeTelemetryPayload with every alias written over the canonical key.
normalizeTelemetryPayload_AliasWins(payload) ==
    LET tc == IF payload.degC # UNDEFINED THEN payload.degC
              ELSE IF payload.C # UNDEFINED THEN payload.C ELSE payload.T_C
        ts == IF payload.timestamp # UNDEFINED THEN payload.timestamp ELSE payload.ts
        acc == IF payload.accum_bar_per_hr # UNDEFINED
               THEN payload.accum_bar_per_hr ELSE payload.accum_bar_per_h
        std == IF payload.P_bar_std = UNDEFINED /\ payload.P_bar_abs # UNDEFINED
               THEN payload.P_bar_abs ELSE payload.P_bar_std
        rc == IF payload.relief_count = UNDEFINED THEN 0 ELSE payload.relief_count
        ev == IF payload.event = "undefined" THEN "null" ELSE payload.event
    IN  [payload EXCEPT !.T_C = tc, !.ts = ts, !.accum_bar_per_h = acc,
                        !.P_bar_std = std, !.relief_count = rc, !.event = ev]

\* const normalized = { ...payload }: every write of normalizeTelemetryPayload
\* goes to the copy, the parsed object is as JSON.parse returned it.
PayloadAfterNormalize(payload) == payload

\* normalizeTelemetryPayload: aliases to canonical keys, defaults for optionals.
normalizeTelemetryPayload(payload) ==
    LET tc == IF payload.T_C = UNDEFINED
              THEN (IF payload.C # UNDEFINED THEN payload.C
                    ELSE IF payload.degC # UNDEFINED THEN payload.degC
                    ELSE UNDEFINED)
              ELSE payload.T_C
        ts == IF payload.ts = UNDEFINED /\ payload.timestamp # UNDEFINED
              THEN payload.timestamp ELSE payload.ts
        acc == IF payload.accum_bar_per_h = UNDEFINED
                  /\ payload.accum_bar_per_hr # UNDEFINED
               THEN payload.accum_bar_per_hr ELSE payload.accum_bar_per_h
        std == IF payload.P_bar_std = UNDEFINED /\ payload.P_bar_abs # UNDEFINED
               THEN payload.P_bar_abs ELSE payload.P_bar_std
        rc == IF payload.relief_count = UNDEFINED THEN 0 ELSE payload.relief_count
        ev == IF payload.event = "undefined" THEN "null" ELSE payload.event
    IN  [payload EXCEPT !.T_C = tc, !.ts = ts, !.accum_bar_per_h = acc,
                        !.P_bar_std = std, !.relief_count = rc, !.event = ev]

\* The required-field loop and the pressure envelope of validateTelemetryData.
RequiredPresent(data) ==
    /\ data.msg_id \notin {"undefined", "null"}
    /\ data.assay_id \notin {"undefined", "null"}
    /\ ~Absent(data.flask_id)
    /\ ~Absent(data.ts)
    /\ ~Absent(data.P_bar_abs)
    /\ ~Absent(data.T_C)

\* validateTelemetryData comparing T_C against the module's TEMPERATURE_RANGE
\* whatever alertConfig.temperatureRange holds.
validateTelemetryData_DefaultRange(data) ==
    /\ RequiredPresent(data)
    /\ ~(data.P_bar_abs < MIN_PRESSURE \/ data.P_bar_abs > MAX_PRESSURE)
    /\ ~(data.T_C < TEMPERATURE_MIN \/ data.T_C > TEMPERATURE_MAX)

\* validateTelemetryData with the temperature bounds themselves rejected.
validateTelemetryData_TempExclusive(data) ==
    /\ RequiredPresent(data)
    /\ ~(data.P_bar_abs < MIN_PRESSURE \/ data.P_bar_abs > MAX_PRESSURE)
    /\ ~(data.T_C <= Coalesce(alertConfig.temperatureRange.min, TEMPERATURE_MIN)
         \/ data.T_C >= Coalesce(alertConfig.temperatureRange.max, TEMPERATURE_MAX))

\* validateTelemetryData with a truthiness test (!data[field]) on flask_id and ts.
validateTelemetryData_Falsy(data) ==
    /\ RequiredPresent(data)
    /\ data.flask_id # 0 /\ data.ts # 0 /\ data.msg_id # ""
    /\ ~(data.P_bar_abs < MIN_PRESSURE \/ data.P_bar_abs > MAX_PRESSURE)
    /\ ~(data.T_C < Coalesce(alertConfig.temperatureRange.min, TEMPERATURE_MIN)
         \/ data.T_C > Coalesce(alertConfig.temperatureRange.max, TEMPERATURE_MAX))

\* validateTelemetryData with the configured warning threshold as upper bound.
validateTelemetryData_ConfigCeiling(data) ==
    /\ RequiredPresent(data)
    /\ ~(data.P_bar_abs < MIN_PRESSURE
         \/ data.P_bar_abs > alertConfig.pressureWarningThreshold)
    /\ ~(data.T_C < Coalesce(alertConfig.temperatureRange.min, TEMPERATURE_MIN)
         \/ data.T_C > Coalesce(alertConfig.temperatureRange.max, TEMPERATURE_MAX))

\* validateTelemetryData: required fields, pressure envelope, temperature range.
validateTelemetryData(data) ==
    /\ data.msg_id \notin {"undefined", "null"}
    /\ data.assay_id \notin {"undefined", "null"}
    /\ ~Absent(data.flask_id)
    /\ ~Absent(data.ts)
    /\ ~Absent(data.P_bar_abs)
    /\ ~Absent(data.T_C)
    /\ ~(data.P_bar_abs < MIN_PRESSURE \/ data.P_bar_abs > MAX_PRESSURE)
    /\ ~(data.T_C < Coalesce(alertConfig.temperatureRange.min, TEMPERATURE_MIN)
         \/ data.T_C > Coalesce(alertConfig.temperatureRange.max, TEMPERATURE_MAX))

\* ------------------------------------------------------------ persistence
\* saveTelemetryData: the INSERT handed to SQLite for delivery d.
saveTelemetryData(data, d) ==
    {[op |-> "insTelemetry", d |-> d,
      row |-> [msg_id |-> data.msg_id, assay_id |-> data.assay_id,
               flask_id |-> data.flask_id, timestamp |-> data.ts,
               pressure_abs |-> data.P_bar_abs, temperature |-> data.T_C,
               d |-> d]]}

\* The gate left open: every accepted Reading is handed to the store.
CaptureGate_Always(data, d) == saveTelemetryData(data, d)

\* processTelemetryData, the capture gate: what is handed to the store.
CaptureGate(data, d) ==
    IF telemetryCaptureEnabled THEN saveTelemetryData(data, d) ELSE {}

\* The telemetry table's constraint msg_id TEXT UNIQUE: an INSERT whose msg_id
\* is already stored fails (SQLITE_CONSTRAINT) and leaves the table as it was.
UniqueViolation(rows, row) ==
    \E i \in DOMAIN rows : rows[i].msg_id = row.msg_id

\* The table without its UNIQUE constraint.
InsertTelemetryRow_NoUnique(rows, row) == Append(rows, row)

InsertTelemetryRow(rows, row) ==
    IF UniqueViolation(rows, row) THEN rows ELSE Append(rows, row)

\* updateFlaskState: create the station's snapshot, or overwrite the readings
\* of an existing one (assay_id and status are written only on creation).
updateFlaskState(states, data) ==
    IF states[data.flask_id].status = "none"
    THEN [states EXCEPT ![data.flask_id] =
            [assay_id |-> data.assay_id, last_pressure |-> data.P_bar_abs,
             last_temperature |-> data.T_C, last_timestamp |-> data.ts,
             relief_count |-> OrZero(data.relief_count), status |-> "active"]]
    ELSE [states EXCEPT ![data.flask_id].last_pressure = data.P_bar_abs,
                        ![data.flask_id].last_temperature = data.T_C,
                        ![data.flask_id].last_timestamp = data.ts,
                        ![data.flask_id].relief_count = OrZero(data.relief_count)]

\* ------------------------------------------------------------ alert rules
Alert(data, d, type, severity) ==
    [flask_id |-> data.flask_id, type |-> type, severity |-> severity, d |-> d]

\* checkAlerts with the pressure rule firing at the threshold itself (>=).
checkAlerts_NonStrict(data, d) ==
    (IF data.P_bar_abs >= Coalesce(alertConfig.pressureReliefThreshold, RELIEF_THRESHOLD)
     THEN <<Alert(data, d, "high_pressure", "warning")>> ELSE <<>>)
    \o
    (IF \/ data.T_C < Coalesce(alertConfig.temperatureRange.min, TEMPERATURE_MIN)
        \/ data.T_C > Coalesce(alertConfig.temperatureRange.max, TEMPERATURE_MAX)
     THEN <<Alert(data, d, "temperature_extreme", "warning")>> ELSE <<>>)
    \o
    (IF data.event = "relief"
     THEN <<Alert(data, d, "pressure_relief", "info")>> ELSE <<>>)

\* checkAlerts with the three rules chained by else: the first that holds wins.
checkAlerts_FirstOnly(data, d) ==
    IF data.P_bar_abs > Coalesce(alertConfig.pressureReliefThreshold, RELIEF_THRESHOLD)
    THEN <<Alert(data, d, "high_pressure", "warning")>>
    ELSE IF \/ data.T_C < Coalesce(alertConfig.temperatureRange.min, TEMPERATURE_MIN)
            \/ data.T_C > Coalesce(alertConfig.temperatureRange.max, TEMPERATURE_MAX)
    THEN <<Alert(data, d, "temperature_extreme", "warning")>>
    ELSE IF data.event = "relief"
    THEN <<Alert(data, d, "pressure_relief", "info")>>
    ELSE <<>>

\* checkAlerts: the list `alerts` built by the three rules, in source order.
checkAlerts(data, d) ==
    (IF data.P_bar_abs > Coalesce(alertConfig.pressureReliefThreshold, RELIEF_THRESHOLD)
     THEN <<Alert(data, d, "high_pressure", "warning")>> ELSE <<>>)
    \o
    (IF \/ data.T_C < Coalesce(alertConfig.temperatureRange.min, TEMPERATURE_MIN)
        \/ data.T_C > Coalesce(alertConfig.temperatureRange.max, TEMPERATURE_MAX)
     THEN <<Alert(data, d, "temperature_extreme", "warning")>> ELSE <<>>)
    \o
    (IF data.event = "relief"
     THEN <<Alert(data, d, "pressure_relief", "info")>> ELSE <<>>)

\* handleMQTTMessage, the branch `data.P_bar_abs > 2.5` after the pipeline.
hardCeilingAlerts(data, d) ==
    IF data.P_bar_abs > HARD_CEILING
    THEN <<Alert(data, d, "pressure_warning", "high")>> ELSE <<>>

\* saveAlert: the INSERTs handed to SQLite for a list of alerts.
saveAlert(as) == {[op |-> "insAlert", d |-> as[i].d, alert |-> as[i]] : i \in DOMAIN as}

\* ------------------------------------------------------------- out-bound
WsTelemetry(data, d) ==
    [type |-> "telemetry", d |-> d, msg_id |-> data.msg_id, kind |-> "",
     severity |-> "", id |-> 0]

WsNewAlert(a, id) ==
    [type |-> "new_alert", d |-> a.d, msg_id |-> "", kind |-> a.type,
     severity |-> a.severity, id |-> id]

\* `ns`, `assay` and `station` are the segments of the topic published on:
\* {ns}/{assay}/{station}/ack and {ns}/{assay}/{station}/alert.
MqttAck(data, d, namespace) ==
    [topic |-> "ack", d |-> d, msg_id |-> data.msg_id, status |-> "received",
     kind |-> "", ns |-> IF namespace = "rumen" THEN "rumen" ELSE "ankom",
     assay |-> data.assay_id, station |-> data.flask_id]

\* checkAlerts: alertTopic = `ankom/${data.assay_id}/flask${data.flask_id}/alert`.
MqttAlert(a, data, namespace) ==
    [topic |-> "alert", d |-> a.d, msg_id |-> "", status |-> "", kind |-> a.type,
     ns |-> "ankom", assay |-> data.assay_id, station |-> data.flask_id]

\* handleMQTTMessage, hard-ceiling branch: alertTopic follows the namespace.
MqttHardAlert(a, data, namespace) ==
    [topic |-> "alert", d |-> a.d, msg_id |-> "", status |-> "", kind |-> a.type,
     ns |-> IF namespace = "rumen" THEN "rumen" ELSE "ankom",
     assay |-> data.assay_id, station |-> data.flask_id]

\* One envelope per alert of a list, in order.
WsNewAlerts(as, id) == [i \in DOMAIN as |-> WsNewAlert(as[i], id)]

MqttAlerts(as, data, namespace) ==
    [i \in DOMAIN as |-> MqttAlert(as[i], data, namespace)]

MqttHardAlerts(as, data, namespace) ==
    [i \in DOMAIN as |-> MqttHardAlert(as[i], data, namespace)]

\* broadcastToWebSocket with the newest event delivered ahead of the older.
broadcastToWebSocket_Prepend(log, events) == events \o log

\* broadcastToWebSocket called once per element of `events`, in order.
broadcastToWebSocket(log, events) == log \o events

\* A client the loop of broadcastToWebSocket sends to: readyState is OPEN.
\* `failing` marks a connection that is lost while its readyState still
\* says OPEN: client.send() returns, the message goes nowhere.
Reachable(c) == c.readyState = "OPEN" /\ ~c.failing

\* A loop that an undeliverable client brings to an end: the clients after
\* it in wss.clients get nothing.
Deliver_Blocking(cs, events) ==
    [k \in DOMAIN cs |->
        IF \A j \in 1..k : cs[j].readyState = "OPEN" /\ ~cs[j].failing
        THEN [cs[k] EXCEPT !.inbox = @ \o events] ELSE cs[k]]

\* broadcastToWebSocket, the loop wss.clients.forEach: every client whose
\* readyState is OPEN is sent the events, each on its own.
Deliver(cs, events) ==
    [k \in DOMAIN cs |->
        IF cs[k].readyState = "OPEN" /\ ~cs[k].failing
        THEN [cs[k] EXCEPT !.inbox = @ \o events] ELSE cs[k]]

\* ---------------------------------------------------------- initial state
NoFlask ==
    [assay_id |-> "", last_pressure |-> UNDEFINED, last_temperature |-> UNDEFINED,
     last_timestamp |-> UNDEFINED, relief_count |-> 0, status |-> "none"]

\* let alertConfig = {...}: the configuration the module starts with.
DefaultAlertConfig ==
    [pressureReliefThreshold |-> RELIEF_THRESHOLD,
     pressureWarningThreshold |-> HARD_CEILING,
     temperatureRange |-> [min |-> TEMPERATURE_MIN, max |-> TEMPERATURE_MAX]]

\* The module-level state other than alertConfig and process.platform.
Boot ==
    /\ telemetryCaptureEnabled = FALSE
    /\ currentCaptureSessionId = 0
    /\ simulatorProcess = FALSE
    /\ systemState = [isRunning |-> FALSE, currentAssay |-> "null",
                      assays |-> [a \in AssayIds |-> "absent"]]
    /\ flaskStates = [f \in Stations |-> NoFlask]
    /\ telemetry = <<>>
    /\ alertsTable = <<>>
    /\ alerts = <<>>
    /\ capture_sessions = <<>>
    /\ pending = {}
    /\ taskkill = 0
    /\ wsLog = <<>>
    /\ mqttOut = <<>>
    /\ received = <<>>
    /\ nOps = 0
    /\ nOpens = 0
    /\ clock = BOOT_TIME
    /\ lastCsvExportAt = BOOT_TIME - EXPORT_INTERVAL
    /\ csvFiles = <<>>
    /\ exportRuns = <<>>
    /\ clients = <<>>
    /\ errorLog = {}
    /\ loopRunning = TRUE
    /\ configLog = <<>>
    /\ fermentation_data = <<>>
    /\ apiAlerts = <<>>
    /\ ioLog = <<>>
    /\ apiPending = {}
    /\ apiReceived = <<>>

\* The state once startServer has run with an empty alert_config table.
Init ==
    /\ alertConfig = DefaultAlertConfig
    /\ alert_config = DefaultAlertConfig
    /\ platform \in {"linux", "win32"}
    /\ Boot

\* ------------------------------------------------------- ingestion loop
\* mqttClient.on('message') -> handleMQTTMessage for a topic */telemetry:
\* normalize, processTelemetryData (validate, capture gate, station state,
\* alert rules, broadcast, ack), then the handler's own broadcast and its
\* hard-ceiling alert.
HandleTopicMessage(namespace, raw) ==
    LET data == normalizeTelemetryPayload(raw)
        d == Len(received) + 1
        valid == validateTelemetryData(data)
        fired == IF valid THEN checkAlerts(data, d) ELSE <<>>
        hard == hardCeilingAlerts(data, d)
    IN  /\ loopRunning
        /\ Len(received) < MaxMsgs
        /\ received' = Append(received,
               [data |-> data, valid |-> valid, capture |-> telemetryCaptureEnabled,
                stored |-> \E k \in DOMAIN telemetry : telemetry[k].msg_id = data.msg_id,
                raw |-> "record", namespace |-> namespace,
                sent |-> raw, payload |-> PayloadAfterNormalize(raw)])
        /\ pending' = pending
                      \cup (IF valid THEN CaptureGate(data, d) ELSE {})
                      \cup saveAlert(fired) \cup saveAlert(hard)
        /\ flaskStates' = IF valid THEN updateFlaskState(flaskStates, data)
                          ELSE flaskStates
        /\ wsLog' = broadcastToWebSocket(wsLog,
                        (IF valid THEN <<WsTelemetry(data, d)>> ELSE <<>>)
                        \o <<WsTelemetry(data, d)>>
                        \o WsNewAlerts(hard, 0))
        /\ clients' = Deliver(clients,
                        (IF valid THEN <<WsTelemetry(data, d)>> ELSE <<>>)
                        \o <<WsTelemetry(data, d)>>
                        \o WsNewAlerts(hard, 0))
        /\ mqttOut' = mqttOut
                      \o MqttAlerts(fired, data, namespace)
                      \o (IF valid THEN <<MqttAck(data, d, namespace)>> ELSE <<>>)
                      \o MqttHardAlerts(hard, data, namespace)
        /\ UNCHANGED <<telemetryCaptureEnabled, currentCaptureSessionId, alertConfig,
                       simulatorProcess, systemState, telemetry, alertsTable, alerts,
                       capture_sessions, taskkill, platform, nOps, nOpens, exporter,
                       health, config, api>>

\* A telemetry message on the namespace every other specification uses.
HandleMQTTMessage(raw) == HandleTopicMessage("ankom", raw)

\* A message that is not a record.  "unparseable": JSON.parse throws.
\* "null": normalizeTelemetryPayload returns null and validateTelemetryData
\* throws a TypeError on data[field].  "number": normalizeTelemetryPayload
\* returns the number, every data[field] is undefined, validation fails, and
\* the handler goes on to its own broadcast.
NonRecords == {"unparseable", "null", "number"}

Throws(kind) == kind \in {"unparseable", "null"}

\* What the handler's fields read as on a value that is not a record.
NonRecord ==
    [Payload("undefined", UNDEFINED, UNDEFINED, UNDEFINED) EXCEPT
        !.assay_id = "undefined", !.ts = UNDEFINED]

\* handleMQTTMessage without its try/catch: the exception leaves the
\* 'message' listener and ends the process.
OnException_Uncaught(running) == FALSE

\* catch (error) { console.error(...) } of handleMQTTMessage.
OnException(running) == running

\* mqttClient.on('message') -> handleMQTTMessage for a message on a
\* */telemetry topic that is not a record.
HandleMalformedMessage(kind) ==
    LET d == Len(received) + 1
    IN  /\ loopRunning
        /\ Len(received) < MaxMsgs
        /\ received' = Append(received,
               [data |-> NonRecord, valid |-> FALSE,
                capture |-> telemetryCaptureEnabled, stored |-> FALSE, raw |-> kind,
                namespace |-> "ankom", sent |-> NonRecord, payload |-> NonRecord])
        /\ wsLog' = IF Throws(kind) THEN wsLog
                    ELSE broadcastToWebSocket(wsLog, <<WsTelemetry(NonRecord, d)>>)
        /\ clients' = IF Throws(kind) THEN clients
                      ELSE Deliver(clients, <<WsTelemetry(NonRecord, d)>>)
        /\ errorLog' = errorLog \cup {[d |-> d, what |-> "message"]}
        /\ loopRunning' = IF Throws(kind) THEN OnException(loopRunning) ELSE loopRunning
        /\ UNCHANGED <<telemetryCaptureEnabled, currentCaptureSessionId, alertConfig,
                       simulatorProcess, systemState, flaskStates, telemetry,
                       alertsTable, alerts, capture_sessions, pending, taskkill,
                       platform, mqttOut, nOps, nOpens, exporter, config, api>>

\* checkAlerts(data) applied to a Reading on its own: the three rules, then
\* saveAlert and the MQTT publication for every alert they gave.
EvaluateReading(data) ==
    LET d == Len(received) + 1
        fired == checkAlerts(data, d)
    IN  /\ Len(received) < MaxMsgs
        /\ received' = Append(received,
               [data |-> data, valid |-> validateTelemetryData(data),
                capture |-> telemetryCaptureEnabled,
                stored |-> \E k \in DOMAIN telemetry : telemetry[k].msg_id = data.msg_id,
                raw |-> "record", namespace |-> "ankom",
                sent |-> data, payload |-> data])
        /\ pending' = pending \cup saveAlert(fired)
        /\ mqttOut' = mqttOut \o MqttAlerts(fired, data, "ankom")
        /\ UNCHANGED <<telemetryCaptureEnabled, currentCaptureSessionId, alertConfig,
                       simulatorProcess, systemState, flaskStates, telemetry,
                       alertsTable, alerts, capture_sessions, taskkill, platform,
                       wsLog, nOps, nOpens, exporter, clients, health, config, api>>

\* --------------------------------------------------- store completions
\* Completion of a telemetry INSERT and saveTelemetryData's callback (logs only).
DbInsertTelemetry ==
    \E s \in pending :
        /\ s.op = "insTelemetry"
        /\ telemetry' = InsertTelemetryRow(telemetry, s.row)
        /\ pending' = pending \ {s}
        /\ UNCHANGED <<telemetryCaptureEnabled, currentCaptureSessionId, alertConfig,
                       simulatorProcess, systemState, flaskStates, alertsTable, alerts,
                       capture_sessions, taskkill, platform, wsLog, mqttOut,
                       received, nOps, nOpens, exporter, clients, health, config, api>>

\* saveTelemetryData's callback broadcasting the store's error to the clients.
OnStoreError_Broadcast(log, d) ==
    Append(log, [type |-> "error", d |-> d, msg_id |-> "", kind |-> "store",
                 severity |-> "", id |-> 0])

\* saveTelemetryData's callback on err: console.error, nothing else.
OnStoreError(log, d) == log

\* Completion of a telemetry INSERT with an error other than the UNIQUE
\* constraint (disk full, database locked, I/O error): no row.
DbInsertTelemetryFails ==
    \E s \in pending :
        /\ s.op = "insTelemetry"
        /\ ~UniqueViolation(telemetry, s.row)
        /\ pending' = pending \ {s}
        /\ errorLog' = errorLog \cup {[d |-> s.d, what |-> "store"]}
        /\ wsLog' = OnStoreError(wsLog, s.d)
        /\ UNCHANGED <<telemetryCaptureEnabled, currentCaptureSessionId, alertConfig,
                       simulatorProcess, systemState, flaskStates, telemetry,
                       alertsTable, alerts, capture_sessions, taskkill, platform,
                       mqttOut, received, nOps, nOpens, exporter, clients,
                       loopRunning, config, api>>

\* The in-memory list keeps the newest ALERT_MEMORY alerts.
KeepLast(s, n) == IF Len(s) > n THEN SubSeq(s, Len(s) - n + 1, Len(s)) ELSE s

\* Completion of an alert INSERT and saveAlert's callback: remember and broadcast.
DbInsertAlert ==
    \E s \in pending :
        /\ s.op = "insAlert"
        /\ LET id == Len(alertsTable) + 1
               row == [flask_id |-> s.alert.flask_id, type |-> s.alert.type,
                       severity |-> s.alert.severity, acknowledged |-> FALSE,
                       d |-> s.alert.d, acks |-> 0]
           IN  /\ alertsTable' = Append(alertsTable, row)
               /\ alerts' = KeepLast(Append(alerts, [id |-> id, alert |-> s.alert]),
                                     ALERT_MEMORY)
               /\ wsLog' = broadcastToWebSocket(wsLog, <<WsNewAlert(s.alert, id)>>)
               /\ clients' = Deliver(clients, <<WsNewAlert(s.alert, id)>>)
        /\ pending' = pending \ {s}
        /\ UNCHANGED <<telemetryCaptureEnabled, currentCaptureSessionId, alertConfig,
                       simulatorProcess, systemState, flaskStates, telemetry,
                       capture_sessions, taskkill, platform, mqttOut, received, nOps, nOpens,
                       exporter, health, config, api>>

\* Completion of openCaptureSession's INSERT and its callback.
\* GET /api/system/capture-status: the branch taken when the request is
\* handled; TRUE answers { enabled: true, session }, FALSE answers
\* { enabled: false, last_session }.
CaptureStatusEnabled == telemetryCaptureEnabled /\ currentCaptureSessionId # 0

DbInsertSession ==
    \E s \in pending :
        /\ s.op = "insSession"
        /\ capture_sessions' = Append(capture_sessions,
               [status |-> "enabled", started_at |-> s.started_at,
                stopped_at |-> NULLV, trigger |-> s.trigger, assay_id |-> s.assay_id,
                reopen |-> s.reopen, closedWhileDisabled |-> FALSE])
        /\ currentCaptureSessionId' = Len(capture_sessions) + 1
        /\ pending' = pending \ {s}
        /\ UNCHANGED <<telemetryCaptureEnabled, alertConfig, simulatorProcess,
                       systemState, flaskStates, telemetry, alertsTable, alerts,
                       taskkill, platform, wsLog, mqttOut, received, nOps, nOpens,
                       exporter, clients, health, config, api>>

\* Completion of closeCaptureSession's UPDATE ... WHERE id = ?.
DbUpdateSession ==
    \E s \in pending :
        /\ s.op = "updSession"
        /\ capture_sessions' = [capture_sessions EXCEPT
               ![s.id] = [@ EXCEPT !.status = "disabled", !.stopped_at = s.stopped_at,
                                   !.trigger = s.trigger,
                                   !.closedWhileDisabled = s.whileDisabled]]
        /\ pending' = pending \ {s}
        /\ UNCHANGED <<telemetryCaptureEnabled, currentCaptureSessionId, alertConfig,
                       simulatorProcess, systemState, flaskStates, telemetry,
                       alertsTable, alerts, taskkill, platform, wsLog, mqttOut,
                       received, nOps, nOpens, exporter, clients, health, config, api>>

\* ------------------------------------------------- manual alert creation
\* JavaScript `severity || 'medium'` on the request body.
SeverityOrMedium(sev) == IF sev \in {"undefined", "null", ""} THEN "medium" ELSE sev

\* POST /api/alerts: 400 when flask_id, type or message is falsy; else the
\* INSERT is handed to the store (its callback broadcasts and answers).
CreateAlert(f, type, sev) ==
    /\ ~(Absent(f) \/ f = 0)
    /\ type \notin {"undefined", "null", ""}
    /\ pending' = pending \cup
          {[op |-> "insManualAlert", n |-> nOps + 1,
            alert |-> [flask_id |-> f, type |-> type,
                       severity |-> SeverityOrMedium(sev), d |-> 0]]}
    /\ UNCHANGED <<telemetryCaptureEnabled, currentCaptureSessionId, alertConfig,
                   simulatorProcess, systemState, flaskStates, telemetry, alertsTable,
                   alerts, capture_sessions, taskkill, platform, wsLog, mqttOut,
                   received, nOpens, exporter, clients, health, config, api>>

\* Completion of POST /api/alerts' INSERT and its callback: broadcast the
\* alert with its row id (the in-memory list `alerts` is not touched).
DbInsertManualAlert ==
    \E s \in pending :
        /\ s.op = "insManualAlert"
        /\ alertsTable' = Append(alertsTable,
               [flask_id |-> s.alert.flask_id, type |-> s.alert.type,
                severity |-> s.alert.severity, acknowledged |-> FALSE, d |-> 0,
                acks |-> 0])
        /\ wsLog' = broadcastToWebSocket(wsLog,
                        <<WsNewAlert(s.alert, Len(alertsTable) + 1)>>)
        /\ clients' = Deliver(clients, <<WsNewAlert(s.alert, Len(alertsTable) + 1)>>)
        /\ pending' = pending \ {s}
        /\ UNCHANGED <<telemetryCaptureEnabled, currentCaptureSessionId, alertConfig,
                       simulatorProcess, systemState, flaskStates, telemetry, alerts,
                       capture_sessions, taskkill, platform, mqttOut, received,
                       nOps, nOpens, exporter, health, config, api>>

\* --------------------------------------------------- acknowledgement
\* UPDATE alerts SET acknowledged = 1 - acknowledged WHERE id = ?: a toggle.
Acknowledge_Toggle(rows, id) ==
    IF id \in DOMAIN rows
    THEN [rows EXCEPT ![id].acknowledged = ~@, ![id].acks = @ + 1] ELSE rows

\* UPDATE alerts SET acknowledged = 1 WHERE id = ?  (`acks` counts the
\* completed UPDATEs that matched the row; it is not a column).
Acknowledge(rows, id) ==
    IF id \in DOMAIN rows
    THEN [rows EXCEPT ![id].acknowledged = TRUE, ![id].acks = @ + 1] ELSE rows

\* POST /api/alerts/:id/acknowledge: the UPDATE is handed to the store.
AcknowledgeAlert(id) ==
    /\ pending' = pending \cup {[op |-> "ackAlert", n |-> nOps + 1, id |-> id]}
    /\ UNCHANGED <<telemetryCaptureEnabled, currentCaptureSessionId, alertConfig,
                   simulatorProcess, systemState, flaskStates, telemetry, alertsTable,
                   alerts, capture_sessions, taskkill, platform, wsLog, mqttOut,
                   received, nOpens, exporter, clients, health, config, api>>

\* Completion of the UPDATE: an error (500) changes nothing; no matching row
\* (this.changes === 0) answers 404; otherwise the row is acknowledged.
DbAckAlert ==
    \E s \in pending, err \in BOOLEAN :
        /\ s.op = "ackAlert"
        /\ alertsTable' = IF err THEN alertsTable ELSE Acknowledge(alertsTable, s.id)
        /\ pending' = pending \ {s}
        /\ UNCHANGED <<telemetryCaptureEnabled, currentCaptureSessionId, alertConfig,
                       simulatorProcess, systemState, flaskStates, telemetry, alerts,
                       capture_sessions, taskkill, platform, wsLog, mqttOut,
                       received, nOps, nOpens, exporter, clients, health, config, api>>

\* ------------------------------------------------- WebSocket subscribers
\* sendInitialState sending the whole in-memory list `alerts`.
InitialState_Unbounded ==
    [type |-> "initial_state",
     flasks |-> {[flask_id |-> f, state |-> flaskStates[f]] :
                    f \in {g \in Stations : flaskStates[g].status # "none"}},
     alerts |-> alerts]

\* The message sendInitialState builds: the values of flaskStates and the
\* newest INITIAL_ALERTS entries of the in-memory list `alerts`.
InitialState ==
    [type |-> "initial_state",
     flasks |-> {[flask_id |-> f, state |-> flaskStates[f]] :
                    f \in {g \in Stations : flaskStates[g].status # "none"}},
     alerts |-> KeepLast(alerts, INITIAL_ALERTS)]

\* History annotations on a client: `since` is the length of wsLog when it
\* connected, `seen` the length of `received` then, `until` the length of
\* wsLog when it stopped being reachable (-1 while it is reachable).
Rest2 == <<telemetryCaptureEnabled, currentCaptureSessionId, alertConfig,
           simulatorProcess, systemState, flaskStates, telemetry, alertsTable,
           alerts, capture_sessions, pending, taskkill, platform, wsLog, mqttOut,
           received, nOps, nOpens, exporter, health, config, api>>

\* wss.on('connection'): the socket is in wss.clients and is sent the
\* initial state before the handler returns.
Connect ==
    /\ Len(clients) < MaxClients
    /\ clients' = Append(clients,
           [readyState |-> "OPEN", failing |-> FALSE, inbox |-> <<InitialState>>,
            since |-> Len(wsLog), seen |-> Len(received), until |-> -1])
    /\ UNCHANGED Rest2

\* The connection of an open client is lost; the server has not noticed.
ClientFail(c) ==
    /\ c \in DOMAIN clients
    /\ Reachable(clients[c])
    /\ clients' = [clients EXCEPT ![c].failing = TRUE, ![c].until = Len(wsLog)]
    /\ UNCHANGED Rest2

\* A client closes: its readyState leaves OPEN (CLOSING, then CLOSED, when
\* ws.on('close') runs and the socket leaves wss.clients; the record is kept
\* here, never sent to again, for what it received).
ClientClose(c) ==
    /\ c \in DOMAIN clients
    /\ clients[c].readyState = "OPEN"
    /\ clients' = [clients EXCEPT
           ![c].readyState = "CLOSING",
           ![c].until = IF clients[c].until = -1 THEN Len(wsLog) ELSE clients[c].until]
    /\ UNCHANGED Rest2

\* ------------------------------------------------- alert configuration
\* The body of POST /api/alerts/config; UNDEFINED is a field left out.
ConfigBody(pr, pw, tmin, tmax) ==
    [pressure_relief_threshold |-> pr, pressure_warning_threshold |-> pw,
     temp_min |-> tmin, temp_max |-> tmax]

\* pr, pw, tmin, tmax of the route: body ?? current, field by field.
MergeConfig(body, current) ==
    [pressureReliefThreshold |->
        Coalesce(body.pressure_relief_threshold, current.pressureReliefThreshold),
     pressureWarningThreshold |->
        Coalesce(body.pressure_warning_threshold, current.pressureWarningThreshold),
     temperatureRange |->
        [min |-> Coalesce(body.temp_min, current.temperatureRange.min),
         max |-> Coalesce(body.temp_max, current.temperatureRange.max)]]

\* POST /api/alerts/config: alertConfig is assigned, then the INSERT OR
\* REPLACE is handed to the store; the answer waits for its callback.
PostAlertsConfig(body) ==
    LET cfg == MergeConfig(body, alertConfig)
    IN  /\ alertConfig' = cfg
        /\ pending' = pending \cup
              {[op |-> "repConfig", n |-> Len(configLog) + 1, cfg |-> cfg]}
        /\ configLog' = Append(configLog,
              [body |-> body, before |-> alertConfig, after |-> cfg,
               status |-> "pending"])
        /\ UNCHANGED <<telemetryCaptureEnabled, currentCaptureSessionId,
                       simulatorProcess, systemState, flaskStates, telemetry,
                       alertsTable, alerts, capture_sessions, taskkill, platform,
                       wsLog, mqttOut, received, nOpens, exporter, clients, health,
                       alert_config, api>>

\* Completion of the INSERT OR REPLACE: row 1 holds the values; 200.
DbReplaceConfig ==
    \E s \in pending :
        /\ s.op = "repConfig"
        /\ alert_config' = s.cfg
        /\ configLog' = [configLog EXCEPT ![s.n].status = "ok"]
        /\ pending' = pending \ {s}
        /\ UNCHANGED <<telemetryCaptureEnabled, currentCaptureSessionId, alertConfig,
                       simulatorProcess, systemState, flaskStates, telemetry,
                       alertsTable, alerts, capture_sessions, taskkill, platform,
                       wsLog, mqttOut, received, nOps, nOpens, exporter, clients,
                       health, api>>

\* Completion of the INSERT OR REPLACE with an error: the row is as it was;
\* 500.  alertConfig is not touched by the callback.
DbReplaceConfigFails ==
    \E s \in pending :
        /\ s.op = "repConfig"
        /\ configLog' = [configLog EXCEPT ![s.n].status = "error"]
        /\ pending' = pending \ {s}
        /\ UNCHANGED <<telemetryCaptureEnabled, currentCaptureSessionId, alertConfig,
                       simulatorProcess, systemState, flaskStates, telemetry,
                       alertsTable, alerts, capture_sessions, taskkill, platform,
                       wsLog, mqttOut, received, nOps, nOpens, exporter, clients,
                       health, alert_config, api>>

\* loadAlertConfig on a table that has its row: column ?? module default.
loadAlertConfig(row) ==
    [pressureReliefThreshold |->
        Coalesce(row.pressureReliefThreshold, DefaultAlertConfig.pressureReliefThreshold),
     pressureWarningThreshold |->
        Coalesce(row.pressureWarningThreshold, DefaultAlertConfig.pressureWarningThreshold),
     temperatureRange |->
        [min |-> Coalesce(row.temperatureRange.min, DefaultAlertConfig.temperatureRange.min),
         max |-> Coalesce(row.temperatureRange.max, DefaultAlertConfig.temperatureRange.max)]]

\* The process is restarted while the store is idle: the module-level state
\* is built again and startServer loads alertConfig from alert_config.  The
\* tables, the files and the history annotations stay.
Restart ==
    /\ pending = {} /\ taskkill = 0
    /\ alertConfig' = loadAlertConfig(alert_config)
    /\ telemetryCaptureEnabled' = FALSE
    /\ currentCaptureSessionId' = 0
    /\ simulatorProcess' = FALSE
    /\ systemState' = [isRunning |-> FALSE, currentAssay |-> "null",
                       assays |-> [a \in AssayIds |-> "absent"]]
    /\ flaskStates' = [f \in Stations |-> NoFlask]
    /\ alerts' = <<>>
    /\ clients' = [c \in DOMAIN clients |->
                      [clients[c] EXCEPT
                          !.readyState = "CLOSED",
                          !.until = IF @ = -1 THEN Len(wsLog) ELSE @]]
    /\ loopRunning' = TRUE
    /\ lastCsvExportAt' = clock - EXPORT_INTERVAL
    /\ UNCHANGED <<telemetry, alertsTable, capture_sessions, pending, taskkill,
                   platform, wsLog, mqttOut, received, nOps, nOpens, clock, csvFiles,
                   exportRuns, errorLog, config, api>>

\* ------------------------------------------------------- CSV exporter
\* exportTelemetryWindowToCSV, the SELECT: the rows (by id) with
\* timestamp >= startISO AND timestamp <= endISO.
WindowRows(rows, startISO, endISO) ==
    {k \in DOMAIN rows : rows[k].timestamp >= startISO /\ rows[k].timestamp <= endISO}

\* A timer callback that moves lastCsvExportAt only after writing a file.
NextWatermark_SkipEmpty(rows, current, endISO) ==
    IF rows = {} THEN current ELSE endISO

\* The timer callback after its await: lastCsvExportAt = endISO.
NextWatermark(rows, current, endISO) == endISO

\* The setInterval callback of scheduleCsvAutoExport, up to its await: the
\* window is (lastCsvExportAt, now) and the SELECT is handed to the store.
ExportTick ==
    /\ Len(exportRuns) < MaxTicks
    /\ clock' = clock + EXPORT_INTERVAL
    /\ pending' = pending \cup {[op |-> "selExport", run |-> Len(exportRuns) + 1,
                                  startISO |-> lastCsvExportAt,
                                  endISO |-> clock + EXPORT_INTERVAL]}
    /\ exportRuns' = Append(exportRuns,
           [startISO |-> lastCsvExportAt, endISO |-> clock + EXPORT_INTERVAL,
            done |-> FALSE, rows |-> {}, seen |-> 0, file |-> FALSE,
            watermark |-> lastCsvExportAt, failed |-> FALSE,
            doneBefore |-> {k \in DOMAIN exportRuns : exportRuns[k].done}])
    /\ UNCHANGED <<telemetryCaptureEnabled, currentCaptureSessionId, alertConfig,
                   simulatorProcess, systemState, flaskStates, telemetry, alertsTable,
                   alerts, capture_sessions, taskkill, platform, wsLog, mqttOut,
                   received, nOps, nOpens, lastCsvExportAt, csvFiles,
                   clients, health, config, api>>

\* Completion of the SELECT: db.all's callback (no file for an empty result,
\* else one file named after the window) and the rest of the timer callback.
DbExportQuery ==
    \E s \in pending :
        /\ s.op = "selExport"
        /\ LET rows == WindowRows(telemetry, s.startISO, s.endISO)
               mark == NextWatermark(rows, lastCsvExportAt, s.endISO)
           IN  /\ csvFiles' = IF rows = {} THEN csvFiles
                               ELSE Append(csvFiles, [startISO |-> s.startISO,
                                                      endISO |-> s.endISO,
                                                      rows |-> rows])
               /\ lastCsvExportAt' = mark
               /\ exportRuns' = [exportRuns EXCEPT ![s.run] =
                      [@ EXCEPT !.done = TRUE, !.rows = rows,
                                !.seen = Len(telemetry), !.file = (rows # {}),
                                !.watermark = mark]]
        /\ pending' = pending \ {s}
        /\ UNCHANGED <<telemetryCaptureEnabled, currentCaptureSessionId, alertConfig,
                       simulatorProcess, systemState, flaskStates, telemetry,
                       alertsTable, alerts, capture_sessions, taskkill, platform,
                       wsLog, mqttOut, received, nOps, nOpens, clock,
                       clients, health, config, api>>

\* A timer callback whose catch moves lastCsvExportAt all the same.
WatermarkOnError_Advance(current, endISO) == endISO

\* catch (e) { } of the timer callback: lastCsvExportAt is not assigned.
WatermarkOnError(current, endISO) == current

\* The export of a tick fails: db.all answers with an error, or
\* fs.writeFileSync throws for a window that has rows; the promise is
\* rejected, no file is written, and the timer callback's catch runs.
DbExportQueryFails ==
    \E s \in pending, cause \in {"query", "write"} :
        /\ s.op = "selExport"
        /\ cause = "write" => WindowRows(telemetry, s.startISO, s.endISO) # {}
        /\ lastCsvExportAt' = WatermarkOnError(lastCsvExportAt, s.endISO)
        /\ exportRuns' = [exportRuns EXCEPT ![s.run] =
               [@ EXCEPT !.done = TRUE, !.failed = TRUE, !.seen = Len(telemetry),
                         !.watermark = WatermarkOnError(lastCsvExportAt, s.endISO)]]
        /\ pending' = pending \ {s}
        /\ UNCHANGED <<telemetryCaptureEnabled, currentCaptureSessionId, alertConfig,
                       simulatorProcess, systemState, flaskStates, telemetry,
                       alertsTable, alerts, capture_sessions, taskkill, platform,
                       wsLog, mqttOut, received, nOps, nOpens, clock, csvFiles,
                       clients, health, config, api>>

\* -------------------------------------------- capture session controller
\* History annotations, written but never read by the handlers: `reopen` on a
\* session says that its open was issued while capture was already enabled,
\* `closedWhileDisabled` that its close was issued while capture was disabled;
\* `d` on rows, alerts and events is the delivery they stem from; `stored` on a
\* delivery says that its msg_id was already persisted when it was handled;
\* an entry of exportRuns keeps the window of a timer callback, the row ids its
\* SELECT returned, the size of the table at that moment (`seen`), whether a
\* file was written and the value lastCsvExportAt was given.

\* openCaptureSession(trigger, assayId): hand the INSERT to the store (its
\* callback will set currentCaptureSessionId) and enable capture.
openCaptureSession(trigger, assayId) ==
    /\ nOpens' = nOpens + 1
    /\ pending' = pending \cup {[op |-> "insSession", started_at |-> nOpens + 1,
                                  trigger |-> trigger, assay_id |-> assayId,
                                  reopen |-> telemetryCaptureEnabled]}
    /\ telemetryCaptureEnabled' = TRUE
    /\ UNCHANGED <<currentCaptureSessionId, capture_sessions>>

\* closeCaptureSession(trigger): if a session id is known, hand the UPDATE to
\* the store and forget the id; disable capture.
closeCaptureSession(trigger) ==
    /\ IF currentCaptureSessionId # 0
       THEN /\ pending' = pending \cup {[op |-> "updSession",
                                          id |-> currentCaptureSessionId,
                                          stopped_at |-> nOpens, trigger |-> trigger,
                                          whileDisabled |-> ~telemetryCaptureEnabled]}
            /\ currentCaptureSessionId' = 0
       ELSE UNCHANGED <<pending, currentCaptureSessionId>>
    /\ telemetryCaptureEnabled' = FALSE
    /\ UNCHANGED <<capture_sessions, nOpens>>

Rest == <<alertConfig, flaskStates, telemetry, alertsTable, alerts, platform,
          wsLog, mqttOut, received, exporter, clients, health, config, api>>

\* POST /api/simulation/start (the first registration of the route): with or
\* without a running simulator the capture session is opened.
SimulationStart ==
    /\ simulatorProcess' = TRUE
    /\ openCaptureSession("simulation_start", "null")
    /\ systemState' = [systemState EXCEPT !.isRunning = TRUE]
    /\ UNCHANGED <<taskkill, Rest>>

\* POST /api/simulation/stop: 400 without a simulator; on win32 the rest of
\* the handler runs in the callback of exec('taskkill').
SimulationStop ==
    /\ simulatorProcess
    /\ IF platform = "win32"
       THEN /\ taskkill' = taskkill + 1
            /\ UNCHANGED <<simulatorProcess, systemState, pending, nOpens,
                           currentCaptureSessionId, telemetryCaptureEnabled,
                           capture_sessions>>
       ELSE /\ simulatorProcess' = FALSE
            /\ closeCaptureSession("simulation_stop")
            /\ systemState' = [systemState EXCEPT !.isRunning = FALSE]
            /\ UNCHANGED taskkill
    /\ UNCHANGED Rest

\* The callback of exec('taskkill /PID ...').
TaskkillDone ==
    /\ taskkill > 0
    /\ taskkill' = taskkill - 1
    /\ simulatorProcess' = FALSE
    /\ closeCaptureSession("simulation_stop")
    /\ systemState' = [systemState EXCEPT !.isRunning = FALSE]
    /\ UNCHANGED <<nOps, Rest>>

\* simulatorProcess.on('exit')
SimulatorExit ==
    /\ simulatorProcess
    /\ simulatorProcess' = FALSE
    /\ UNCHANGED <<telemetryCaptureEnabled, currentCaptureSessionId, systemState,
                   capture_sessions, pending, taskkill, nOps, nOpens, Rest>>

\* POST /api/assays
CreateAssay(id) ==
    /\ systemState' = [systemState EXCEPT !.assays[id] = "created"]
    /\ UNCHANGED <<telemetryCaptureEnabled, currentCaptureSessionId, simulatorProcess,
                   capture_sessions, pending, taskkill, nOpens, Rest>>

\* POST /api/assays/:id/start: 404 for an unknown assay, 400 for a running one.
AssayStart(id) ==
    /\ systemState.assays[id] \notin {"absent", "running"}
    /\ systemState' = [systemState EXCEPT !.assays[id] = "running",
                                          !.currentAssay = id, !.isRunning = TRUE]
    /\ openCaptureSession("assay_start", id)
    /\ UNCHANGED <<simulatorProcess, taskkill, Rest>>

\* POST /api/assays/:id/stop: 404 for an unknown assay.
AssayStop(id) ==
    /\ systemState.assays[id] # "absent"
    /\ systemState' =
          IF systemState.currentAssay = id
          THEN [systemState EXCEPT !.assays[id] = "stopped",
                                   !.currentAssay = "null", !.isRunning = FALSE]
          ELSE [systemState EXCEPT !.assays[id] = "stopped"]
    /\ closeCaptureSession("assay_stop")
    /\ UNCHANGED <<simulatorProcess, taskkill, Rest>>

\* POST /api/assay/start
AssayStartCommand(id) ==
    /\ openCaptureSession("assay_start", id)
    /\ systemState' = [systemState EXCEPT !.isRunning = TRUE]
    /\ UNCHANGED <<simulatorProcess, taskkill, Rest>>

\* POST /api/assay/shutdown
AssayShutdown ==
    /\ closeCaptureSession("shutdown")
    /\ systemState' = [systemState EXCEPT !.isRunning = FALSE]
    /\ UNCHANGED <<simulatorProcess, taskkill, Rest>>

\* ------------------------------------------------------- specifications
\* An administrative command, counted against the budget of the specification.
Command(A) == nOps < MaxOps /\ nOps' = nOps + 1 /\ A

\* Spec: the whole server.
Ingest == \E m \in MsgIds, f \in Flasks, p \in Pressures, t \in Temps :
              HandleMQTTMessage(Payload(m, f, p, t))

Next ==
    \/ Ingest
    \/ DbInsertTelemetry
    \/ DbInsertAlert
    \/ DbInsertSession
    \/ DbUpdateSession
    \/ Command(SimulationStart)
    \/ Command(SimulationStop)
    \/ TaskkillDone
    \/ SimulatorExit
    \/ \E id \in AssayIds : Command(CreateAssay(id))
    \/ \E id \in AssayIds : Command(AssayStart(id))
    \/ \E id \in AssayIds : Command(AssayStop(id))
    \/ \E id \in AssayIds : Command(AssayStartCommand(id))
    \/ Command(AssayShutdown)

Spec == Init /\ [][Next]_vars

\* SpecIngest: the ingestion pipeline and the store on accepted Readings, with
\* the capture gate driven by the two unconditional commands (every other
\* command reaches the gate through the same openCaptureSession /
\* closeCaptureSession).
IngestAccepted == \E r \in CoreReadings, p \in CorePressures :
                      HandleMQTTMessage(Payload(r[1], r[2], p, 39))

NextIngest ==
    \/ IngestAccepted
    \/ DbInsertTelemetry
    \/ DbInsertAlert
    \/ DbInsertSession
    \/ DbUpdateSession
    \/ \E id \in AssayIds : Command(AssayStartCommand(id))
    \/ Command(AssayShutdown)

InitIngest == Init /\ platform = "linux"

SpecIngest == InitIngest /\ [][NextIngest]_vars

\* SpecRules: the ingestion pipeline on Readings at and around every bound the
\* validator and the alert rules compare against, started with an alert_config
\* row that loadAlertConfig restores.  Capture stays disabled.
StoredAlertConfigs ==
    {DefaultAlertConfig,
     [pressureReliefThreshold |-> 10, pressureWarningThreshold |-> 18,
      temperatureRange |-> [min |-> 29, max |-> 46]]}

BaseReading == Payload("a", 1, 8, 39)
BoundaryPressures == {4, 5, 10, 11, 15, 16, 20, 21}
BoundaryTemps == {28, 29, 30, 45, 46, 47}

PressureReadings == {[BaseReading EXCEPT !.P_bar_abs = p] : p \in BoundaryPressures}
TemperatureReadings == {[BaseReading EXCEPT !.T_C = t] : t \in BoundaryTemps}
ReliefReadings ==
    {[BaseReading EXCEPT !.event = "relief", !.P_bar_abs = p] : p \in {8, 16}}
MissingFieldReadings ==
    {[BaseReading EXCEPT !.msg_id = v] : v \in {"undefined", "null"}}
    \cup {[BaseReading EXCEPT !.assay_id = v] : v \in {"undefined", "null"}}
    \cup {[BaseReading EXCEPT !.flask_id = v] : v \in {UNDEFINED, NULLV}}
    \cup {[BaseReading EXCEPT !.ts = v] : v \in {UNDEFINED, NULLV}}
    \cup {[BaseReading EXCEPT !.P_bar_abs = v] : v \in {UNDEFINED, NULLV}}
    \cup {[BaseReading EXCEPT !.T_C = v] : v \in {UNDEFINED, NULLV}}
FalsyReadings ==
    {[BaseReading EXCEPT !.flask_id = 0], [BaseReading EXCEPT !.ts = 0],
     [BaseReading EXCEPT !.msg_id = ""]}
RuleReadings ==
    {BaseReading} \cup PressureReadings \cup TemperatureReadings
    \cup ReliefReadings \cup MissingFieldReadings \cup FalsyReadings

IngestRules == \E raw \in RuleReadings : HandleMQTTMessage(raw)

NextRules ==
    \/ IngestRules
    \/ DbInsertAlert

InitRules ==
    /\ alertConfig \in StoredAlertConfigs
    /\ alert_config = alertConfig
    /\ platform = "linux"
    /\ Boot

SpecRules == InitRules /\ [][NextRules]_vars

\* SpecEvaluator: checkAlerts on its own, applied to Readings on either side
\* of each rule's condition, under the configurations of SpecRules.
EvaluatorReadings ==
    {[normalizeTelemetryPayload(Payload("a", 1, r[1], r[2])) EXCEPT !.event = r[3]] :
        r \in {10, 15, 16} \X {29, 39, 46} \X {"null", "relief"}}

NextEvaluator == \E data \in EvaluatorReadings : EvaluateReading(data)

SpecEvaluator == InitRules /\ [][NextEvaluator]_vars

\* SpecAlerts: every way an alert is made: the rules of checkAlerts and the
\* hard-ceiling branch of handleMQTTMessage on Readings below and above the
\* ceiling, and POST /api/alerts with and without a severity, with
\* subscribers joining at any moment.
IngestAlerting == \E p \in Pressures : HandleMQTTMessage(Payload("a", 1, p, 39))

NextAlerts ==
    \/ IngestAlerting
    \/ DbInsertAlert
    \/ \E sev \in ManualSeverities : Command(CreateAlert(1, "manual", sev))
    \/ DbInsertManualAlert
    \/ Connect

SpecAlerts == InitIngest /\ [][NextAlerts]_vars

\* SpecAck: alerts of both origins and their acknowledgement, for the ids of
\* rows that exist, that do not exist yet and that never exist.
AlertIds == 1..3

NextAck ==
    \/ IngestAlerting
    \/ DbInsertAlert
    \/ Command(CreateAlert(1, "manual", "critical"))
    \/ DbInsertManualAlert
    \/ \E id \in AlertIds : Command(AcknowledgeAlert(id))
    \/ DbAckAlert

SpecAck == InitIngest /\ [][NextAck]_vars

\* SpecSubscribers: the broadcasts of the ingestion pipeline (telemetry for an
\* accepted Reading, telemetry and new_alert for one above the hard ceiling)
\* with WebSocket clients connecting, losing their connection and closing at
\* any moment.
BroadcastReadings == {Payload("a", 1, 8, 39), Payload("b", 1, 26, 39)}

IngestBroadcast == \E raw \in BroadcastReadings : HandleMQTTMessage(raw)

NextSubscribers ==
    \/ IngestBroadcast
    \/ Connect
    \/ \E c \in 1..MaxClients : ClientFail(c)
    \/ \E c \in 1..MaxClients : ClientClose(c)

SpecSubscribers == InitIngest /\ [][NextSubscribers]_vars

\* SpecHistory: the ingestion pipeline for two stations with WebSocket
\* clients joining at any moment.  The server has either just started or has
\* already saved PriorAlerts alerts of the evaluator for station 1 (the
\* Readings that fired them are older than `received`).
HistoryReadings ==
    {Payload("a", 1, 8, 39),
     [Payload("b", 1, 16, 38) EXCEPT !.assay_id = OtherAssay],
     Payload("c", 2, 16, 39)}

PriorAlerts == INITIAL_ALERTS

PriorAlert == [flask_id |-> 1, type |-> "high_pressure", severity |-> "warning", d |-> 0]

PriorState ==
    [assay_id |-> "X", last_pressure |-> 16, last_temperature |-> 39,
     last_timestamp |-> 0, relief_count |-> 0, status |-> "active"]

InitHistory ==
    /\ alertConfig = DefaultAlertConfig
    /\ alert_config = DefaultAlertConfig
    /\ platform = "linux"
    /\ \E n \in {0, PriorAlerts} :
          /\ alertsTable = [k \in 1..n |->
                 [flask_id |-> 1, type |-> PriorAlert.type,
                  severity |-> PriorAlert.severity, acknowledged |-> FALSE,
                  d |-> 0, acks |-> 0]]
          /\ alerts = [k \in 1..n |-> [id |-> k, alert |-> PriorAlert]]
          /\ wsLog = [k \in 1..n |-> WsNewAlert(PriorAlert, k)]
          /\ flaskStates = [f \in Stations |->
                 IF f = 1 /\ n > 0 THEN PriorState ELSE NoFlask]
    /\ telemetryCaptureEnabled = FALSE
    /\ currentCaptureSessionId = 0
    /\ simulatorProcess = FALSE
    /\ systemState = [isRunning |-> FALSE, currentAssay |-> "null",
                      assays |-> [a \in AssayIds |-> "absent"]]
    /\ telemetry = <<>> /\ capture_sessions = <<>> /\ pending = {}
    /\ taskkill = 0 /\ mqttOut = <<>> /\ received = <<>>
    /\ nOps = 0 /\ nOpens = 0
    /\ clock = BOOT_TIME /\ lastCsvExportAt = BOOT_TIME - EXPORT_INTERVAL
    /\ csvFiles = <<>> /\ exportRuns = <<>>
    /\ clients = <<>> /\ errorLog = {} /\ loopRunning = TRUE /\ configLog = <<>>
    /\ fermentation_data = <<>> /\ apiAlerts = <<>> /\ ioLog = <<>>
    /\ apiPending = {} /\ apiReceived = <<>>

IngestStations == \E raw \in HistoryReadings : HandleMQTTMessage(raw)

NextHistory ==
    \/ IngestStations
    \/ DbInsertAlert
    \/ Connect

SpecHistory == InitHistory /\ [][NextHistory]_vars

\* SpecFaults: the ingestion pipeline with capture opened by POST
\* /api/assay/start, on two Readings of one station, a Reading the validator
\* rejects, redeliveries of all of them, messages that are not records, and a
\* store whose telemetry INSERTs can fail.
FaultReadings ==
    {Payload("a", 1, 8, 39), Payload("b", 1, 16, 38), Payload("r", 1, 8, 50)}

IngestFaulty == \E raw \in FaultReadings : HandleMQTTMessage(raw)

NextFaults ==
    \/ IngestFaulty
    \/ \E kind \in NonRecords : HandleMalformedMessage(kind)
    \/ DbInsertTelemetry
    \/ DbInsertTelemetryFails
    \/ DbInsertAlert
    \/ DbInsertSession
    \/ \E id \in AssayIds : Command(AssayStartCommand(id))

SpecFaults == InitIngest /\ [][NextFaults]_vars

\* SpecConfig: POST /api/alerts/config with complete, partial and empty
\* bodies, a store whose write can fail, and restarts of the server.
ConfigBodies ==
    {ConfigBody(18, 26, 30, 45),
     ConfigBody(12, UNDEFINED, UNDEFINED, UNDEFINED),
     ConfigBody(UNDEFINED, UNDEFINED, 32, 44),
     ConfigBody(UNDEFINED, UNDEFINED, UNDEFINED, UNDEFINED)}

NextConfig ==
    \/ \E body \in ConfigBodies : Command(PostAlertsConfig(body))
    \/ DbReplaceConfig
    \/ DbReplaceConfigFails
    \/ Restart

SpecConfig == InitIngest /\ [][NextConfig]_vars

\* SpecNamespace: Readings of two stations, below and above the relief
\* threshold and above the hard ceiling, arriving on both namespaces.
Namespaces == {"ankom", "rumen"}

IngestNamespaced ==
    \E namespace \in Namespaces, f \in Flasks, p \in {8} \cup Pressures :
        HandleTopicMessage(namespace, Payload("a", f, p, 39))

NextNamespace ==
    \/ IngestNamespaced
    \/ DbInsertAlert

SpecNamespace == InitIngest /\ [][NextNamespace]_vars

\* SpecCodec: the ingestion pipeline on payloads that carry the canonical
\* keys, their aliases, both or neither, and with and without the optional
\* fields.
TemperaturePayloads ==
    {[Payload("a", 1, 8, t) EXCEPT !.C = c, !.degC = g] :
        t \in {UNDEFINED, NULLV, 39}, c \in {UNDEFINED, 38}, g \in {UNDEFINED, 37}}

TimestampPayloads ==
    {[Payload("b", 1, 8, 39) EXCEPT !.ts = t, !.timestamp = u] :
        t \in {UNDEFINED, 1}, u \in {UNDEFINED, 2}}

AccumulationPayloads ==
    {[Payload("c", 1, 8, 39) EXCEPT !.accum_bar_per_h = h, !.accum_bar_per_hr = r] :
        h \in {UNDEFINED, 3}, r \in {UNDEFINED, 4}}

OptionalPayloads ==
    {[Payload("d", 1, 8, 39) EXCEPT !.relief_count = n, !.event = e] :
        n \in {UNDEFINED, 2}, e \in {"undefined", "relief"}}

CodecPayloads ==
    TemperaturePayloads \cup TimestampPayloads \cup AccumulationPayloads
        \cup OptionalPayloads

IngestAliased == \E raw \in CodecPayloads : HandleMQTTMessage(raw)

NextCodec == IngestAliased

SpecCodec == InitIngest /\ [][NextCodec]_vars

\* SpecExport: the CSV exporter beside the ingestion of Readings stamped
\* inside the first window and on its upper bound, with capture opened by
\* POST /api/assay/start.
ExportReadings ==
    {[Payload("a", 1, 8, 39) EXCEPT !.ts = BOOT_TIME - 1],
     [Payload("b", 1, 8, 39) EXCEPT !.ts = BOOT_TIME + EXPORT_INTERVAL]}

IngestStamped == \E raw \in ExportReadings : HandleMQTTMessage(raw)

NextExport ==
    \/ IngestStamped
    \/ DbInsertTelemetry
    \/ DbInsertSession
    \/ \E id \in AssayIds : Command(AssayStartCommand(id))
    \/ ExportTick
    \/ DbExportQuery

SpecExport == InitIngest /\ [][NextExport]_vars

\* SpecExportFaults: the exporter with exports that can fail, beside the
\* ingestion of a Reading stamped inside the first window.
IngestEarly ==
    HandleMQTTMessage([Payload("a", 1, 8, 39) EXCEPT !.ts = BOOT_TIME - 1])

NextExportFaults ==
    \/ IngestEarly
    \/ DbInsertTelemetry
    \/ DbInsertSession
    \/ \E id \in AssayIds : Command(AssayStartCommand(id))
    \/ ExportTick
    \/ DbExportQuery
    \/ DbExportQueryFails

SpecExportFaults == InitIngest /\ [][NextExportFaults]_vars

\* ------------------------------------- alternate API server (src/api/server.js)
\* The object JSON.parse returns for a message on rumen/+/+/telemetry.
ApiPayload(m, a, f, ts, p, t, ev) ==
    [msg_id |-> m, assay_id |-> a, flask_id |-> f, timestamp |-> ts,
     P_bar_abs |-> p, T_C |-> t, event |-> ev]

\* JavaScript `!v` on a string field and on a numeric field.
FalsyText(v) == v \in {"undefined", "null", ""}
FalsyNumber(v) == Absent(v) \/ v = 0

\* if (!msg_id || !assay_id || !flask_id || !timestamp)
RequiredMissing(data) ==
    \/ FalsyText(data.msg_id)
    \/ FalsyText(data.assay_id)
    \/ FalsyNumber(data.flask_id)
    \/ FalsyNumber(data.timestamp)

ApiAlert(data, d, type, severity) ==
    [assay_id |-> data.assay_id, flask_id |-> data.flask_id, alert_type |-> type,
     severity |-> severity, d |-> d]

\* checkAlerts of src/api/server.js: the alertData objects it hands to
\* handleAlertData, in source order (an undefined P_bar_abs or T_C compares
\* false with every number).
apiCheckAlerts(data, d) ==
    (IF data.P_bar_abs # UNDEFINED /\ data.P_bar_abs >= 15
     THEN <<ApiAlert(data, d, "pressure_critical", "high")>> ELSE <<>>)
    \o
    (IF data.T_C # UNDEFINED /\ (data.T_C < 38 \/ data.T_C > 40)
     THEN <<ApiAlert(data, d, "temperature_anomaly", "medium")>> ELSE <<>>)
    \o
    (IF data.event = "relief"
     THEN <<ApiAlert(data, d, "pressure_relief", "high")>> ELSE <<>>)

\* handleAlertData: the INSERT INTO alerts handed to the store.
handleAlertData(as) ==
    {[op |-> "insAlert", d |-> as[i].d, alert |-> as[i]] : i \in DOMAIN as}

\* A db.run callback that emits and checks alerts whatever err is.
TelemetryInserted_IgnoringError(err, data, d) ==
    [emits |-> <<[event |-> "telemetry_update", d |-> d, kind |-> ""]>>,
     fired |-> apiCheckAlerts(data, d)]

\* The callback of handleTelemetryData's db.run: on err only a log line, else
\* io.emit('telemetry_update', data) and checkAlerts(data).
TelemetryInserted(err, data, d) ==
    IF err
    THEN [emits |-> <<>>, fired |-> <<>>]
    ELSE [emits |-> <<[event |-> "telemetry_update", d |-> d, kind |-> ""]>>,
          fired |-> apiCheckAlerts(data, d)]

\* handleTelemetryData up to db.run: a message without msg_id, assay_id,
\* flask_id or timestamp is logged and dropped, else the INSERT INTO
\* fermentation_data is handed to the store.
handleTelemetryData(data) ==
    LET d == Len(apiReceived) + 1
    IN  /\ Len(apiReceived) < MaxMsgs
        /\ apiReceived' = Append(apiReceived,
               [data |-> data,
                outcome |-> IF RequiredMissing(data) THEN "dropped" ELSE "pending",
                stored |-> \E k \in DOMAIN fermentation_data :
                               fermentation_data[k].msg_id = data.msg_id])
        /\ apiPending' = IF RequiredMissing(data) THEN apiPending
                          ELSE apiPending \cup
                                   {[op |-> "insTelemetry", d |-> d, data |-> data]}
        /\ UNCHANGED <<fermentation_data, apiAlerts, ioLog, mainServer>>

\* Completion of the INSERT INTO fermentation_data: SQLITE_CONSTRAINT when
\* the msg_id is already in the table (msg_id TEXT UNIQUE), else the row is
\* stored; then the callback.
ApiDbInsertTelemetry ==
    \E s \in apiPending :
        /\ s.op = "insTelemetry"
        /\ LET err == \E k \in DOMAIN fermentation_data :
                          fermentation_data[k].msg_id = s.data.msg_id
               after == TelemetryInserted(err, s.data, s.d)
           IN  /\ fermentation_data' =
                      IF err THEN fermentation_data
                      ELSE Append(fermentation_data,
                               [msg_id |-> s.data.msg_id, assay_id |-> s.data.assay_id,
                                flask_id |-> s.data.flask_id, d |-> s.d])
               /\ ioLog' = ioLog \o after.emits
               /\ apiPending' = (apiPending \ {s}) \cup handleAlertData(after.fired)
               /\ apiReceived' = [apiReceived EXCEPT ![s.d].outcome =
                                      IF err THEN "duplicate" ELSE "inserted"]
        /\ UNCHANGED <<apiAlerts, mainServer>>

\* Completion of the INSERT INTO fermentation_data with any other error.
ApiDbInsertTelemetryFails ==
    \E s \in apiPending :
        /\ s.op = "insTelemetry"
        /\ LET after == TelemetryInserted(TRUE, s.data, s.d)
           IN  /\ ioLog' = ioLog \o after.emits
               /\ apiPending' = (apiPending \ {s}) \cup handleAlertData(after.fired)
        /\ apiReceived' = [apiReceived EXCEPT ![s.d].outcome = "error"]
        /\ UNCHANGED <<fermentation_data, apiAlerts, mainServer>>

\* Completion of handleAlertData's INSERT: the row, then
\* io.emit('alert_update', data).
ApiDbInsertAlert ==
    \E s \in apiPending :
        /\ s.op = "insAlert"
        /\ apiAlerts' = Append(apiAlerts, s.alert)
        /\ ioLog' = Append(ioLog, [event |-> "alert_update", d |-> s.d,
                                    kind |-> s.alert.alert_type])
        /\ apiPending' = apiPending \ {s}
        /\ UNCHANGED <<fermentation_data, apiReceived, mainServer>>

\* Completion of handleAlertData's INSERT with an error: a log line.
ApiDbInsertAlertFails ==
    \E s \in apiPending :
        /\ s.op = "insAlert"
        /\ apiPending' = apiPending \ {s}
        /\ UNCHANGED <<fermentation_data, apiAlerts, ioLog, apiReceived, mainServer>>

\* SpecApi: the alternate API server on complete messages, repeated msg_ids
\* and messages that lack one of the four required fields, with a store
\* whose writes can fail.
ApiComplete ==
    {ApiPayload("a", "X", 1, 1, 16, 41, "none"),
     ApiPayload("a", "X", 1, 1, 8, 39, "none"),
     ApiPayload("b", "X", 1, 1, 8, 39, "relief")}

ApiIncomplete ==
    {ApiPayload("undefined", "X", 1, 1, 16, 41, "relief"),
     ApiPayload("a", "undefined", 1, 1, 16, 41, "relief"),
     ApiPayload("a", "X", 0, 1, 16, 41, "relief"),
     ApiPayload("a", "X", 1, UNDEFINED, 16, 41, "relief")}

ApiIngest == \E data \in ApiComplete \cup ApiIncomplete : handleTelemetryData(data)

NextApi ==
    \/ ApiIngest
    \/ ApiDbInsertTelemetry
    \/ ApiDbInsertTelemetryFails
    \/ ApiDbInsertAlert
    \/ ApiDbInsertAlertFails

SpecApi == InitIngest /\ [][NextApi]_vars

\* SpecThermal: Readings around the temperature bounds beside POST
\* /api/alerts/config bodies that widen and narrow temperatureRange, and
\* POST /api/alerts creating a temperature_extreme alert by hand.
ThermalBodies ==
    {ConfigBody(UNDEFINED, UNDEFINED, 25, 50),
     ConfigBody(UNDEFINED, UNDEFINED, 35, 42)}

ThermalTemps == {28, 35, 44, 48}

ThermalReadings ==
    {Payload("a", 1, 8, t) : t \in ThermalTemps} \cup {Payload("b", 1, 16, 39)}

IngestThermal == \E raw \in ThermalReadings : HandleMQTTMessage(raw)

NextThermal ==
    \/ IngestThermal
    \/ DbInsertAlert
    \/ \E body \in ThermalBodies : Command(PostAlertsConfig(body))
    \/ DbReplaceConfig
    \/ Command(CreateAlert(1, "temperature_extreme", "warning"))
    \/ DbInsertManualAlert

SpecThermal == InitIngest /\ [][NextThermal]_vars

\* ------------------------------------------------------------ properties
Deliveries == DOMAIN received
Accepted(i) == received[i].valid
MsgIdOf(i) == received[i].data.msg_id
FlaskOf(i) == received[i].data.flask_id

InsertPending(i) == \E s \in pending : s.op = "insTelemetry" /\ s.d = i
RowsOfMsg(m) == {k \in DOMAIN telemetry : telemetry[k].msg_id = m}
RowsOfDelivery(i) == {k \in DOMAIN telemetry : telemetry[k].d = i}

TelemetryEvents(i) ==
    {k \in DOMAIN wsLog : wsLog[k].type = "telemetry" /\ wsLog[k].d = i}
NewAlertEvents(i) ==
    {k \in DOMAIN wsLog : wsLog[k].type = "new_alert" /\ wsLog[k].d = i}
AlertRows(i) == {k \in DOMAIN alertsTable : alertsTable[k].d = i}
AlertsPending(i) == {s \in pending : s.op = "insAlert" /\ s.d = i}
AlertsPublished(i) ==
    {k \in DOMAIN mqttOut : mqttOut[k].topic = "alert" /\ mqttOut[k].d = i}
Acked(i) ==
    \E k \in DOMAIN mqttOut :
        mqttOut[k].topic = "ack" /\ mqttOut[k].d = i /\ mqttOut[k].status = "received"

Quiescent == pending = {} /\ taskkill = 0

\* C1  Idempotent persistence: the telemetry table never holds two rows with
\* the same msg_id; every accepted Reading handed to the store while capture
\* was enabled is either still in flight or represented by exactly one row
\* carrying its msg_id (so a second delivery of a msg_id adds no row); and the
\* sender of every accepted delivery, duplicate or not, gets the same
\* `received` acknowledgement, never an error.
C1_IdempotentPersistence ==
    /\ \A j, k \in DOMAIN telemetry :
          telemetry[j].msg_id = telemetry[k].msg_id => j = k
    /\ \A i \in Deliveries :
          /\ (Accepted(i) /\ received[i].capture)
                => (InsertPending(i) \/ Cardinality(RowsOfMsg(MsgIdOf(i))) = 1)
          /\ Accepted(i) => Acked(i)
    /\ \A k \in DOMAIN wsLog : wsLog[k].type \in {"telemetry", "new_alert"}

\* C1 witness: one msg_id delivered twice with capture enabled, both INSERTs
\* completed, one row.
C1_Witness ==
    \E i, j \in Deliveries :
        /\ i < j /\ MsgIdOf(i) = MsgIdOf(j)
        /\ Accepted(i) /\ Accepted(j)
        /\ received[i].capture /\ received[j].capture
        /\ ~InsertPending(i) /\ ~InsertPending(j)
        /\ Cardinality(RowsOfMsg(MsgIdOf(i))) = 1

\* C2  Alerts are not re-fired on duplicates: a delivery whose msg_id was
\* already persisted when it was handled adds no Alert record, no alert INSERT
\* and no alert publication (MQTT or new_alert).
C2_NoRefireOnDuplicate ==
    \A j \in Deliveries :
        received[j].stored =>
            /\ AlertRows(j) = {}
            /\ AlertsPending(j) = {}
            /\ AlertsPublished(j) = {}
            /\ NewAlertEvents(j) = {}

\* C3  Rejected Readings never leave the validator: no telemetry row or
\* INSERT, no Alert created or published, no telemetry or new_alert broadcast.
C3_RejectedNeverLeaveValidator ==
    \A i \in Deliveries :
        ~Accepted(i) =>
            /\ RowsOfDelivery(i) = {} /\ ~InsertPending(i)
            /\ AlertRows(i) = {} /\ AlertsPending(i) = {}
            /\ AlertsPublished(i) = {}
            /\ TelemetryEvents(i) = {} /\ NewAlertEvents(i) = {}

\* C4  Duplicate messages are invisible to subscribers: a delivery whose
\* msg_id was already persisted when it was handled is followed by no
\* telemetry and no new_alert broadcast for it.
C4_DuplicateInvisible ==
    \A j \in Deliveries :
        received[j].stored => TelemetryEvents(j) = {} /\ NewAlertEvents(j) = {}

\* C5  Session exclusivity: at most one capture_sessions record has status
\* 'enabled', and a session opened while another was open finds that one
\* closed (stopped_at set) once it is recorded.
EnabledSessions == {k \in DOMAIN capture_sessions : capture_sessions[k].status = "enabled"}

C5_SessionExclusivity ==
    /\ Cardinality(EnabledSessions) <= 1
    /\ \A j, k \in DOMAIN capture_sessions :
          (j < k /\ Quiescent) => capture_sessions[j].stopped_at # NULLV

\* C6  With no store statement in flight, a session record has stopped_at =
\* null if and only if it is the current open session (capture enabled and
\* currentCaptureSessionId naming it).
C6_StoppedAtNullIffCurrent ==
    Quiescent =>
        \A k \in DOMAIN capture_sessions :
            (capture_sessions[k].stopped_at = NULLV)
                <=> (telemetryCaptureEnabled /\ currentCaptureSessionId = k)

\* C7  close closes the current session under every interleaving: capture is
\* disabled exactly when the last gate command issued was a close (or none
\* was issued yet); in such a state, once every store callback has run, no
\* session record is 'enabled' and every session has stopped_at set.
C7_CloseCloses ==
    (~telemetryCaptureEnabled /\ Quiescent) =>
        /\ EnabledSessions = {}
        /\ \A k \in DOMAIN capture_sessions : capture_sessions[k].stopped_at # NULLV

\* C8  Capture transitions are idempotent: an open issued while capture is
\* already enabled adds no session record, and a close issued while capture
\* is already disabled changes no session record.
C8_TransitionsIdempotent ==
    \A k \in DOMAIN capture_sessions :
        ~capture_sessions[k].reopen /\ ~capture_sessions[k].closedWhileDisabled

\* C9  Capture gating: an accepted Reading handled while capture was disabled
\* is never handed to the store and never becomes a row; one handled while
\* capture was enabled is handed to the store (in flight, or stored under its
\* msg_id); in both cases it is broadcast as a telemetry event, every alert
\* the rules give for it is saved and published, and the StationState of its
\* station shows the values of the station's latest accepted Reading.
LastOfFlask(i) ==
    \A j \in Deliveries : (Accepted(j) /\ FlaskOf(j) = FlaskOf(i)) => j <= i

AlertSaved(a) ==
    \/ \E s \in pending : s.op = "insAlert" /\ s.alert = a
    \/ \E k \in DOMAIN alertsTable :
          /\ alertsTable[k].d = a.d /\ alertsTable[k].type = a.type
          /\ alertsTable[k].severity = a.severity
          /\ alertsTable[k].flask_id = a.flask_id

C9_CaptureGating ==
    \A i \in Deliveries :
        Accepted(i) =>
            /\ ~received[i].capture => (~InsertPending(i) /\ RowsOfDelivery(i) = {})
            /\ received[i].capture
                  => (InsertPending(i) \/ RowsOfMsg(MsgIdOf(i)) # {})
            /\ TelemetryEvents(i) # {}
            /\ LET fired == checkAlerts(received[i].data, i)
               IN  \A n \in DOMAIN fired :
                      /\ AlertSaved(fired[n])
                      /\ \E k \in AlertsPublished(i) : mqttOut[k].kind = fired[n].type
            /\ LastOfFlask(i) =>
                  /\ flaskStates[FlaskOf(i)].status = "active"
                  /\ flaskStates[FlaskOf(i)].last_pressure = received[i].data.P_bar_abs
                  /\ flaskStates[FlaskOf(i)].last_temperature = received[i].data.T_C
                  /\ flaskStates[FlaskOf(i)].last_timestamp = received[i].data.ts

\* C9 witness: one accepted Reading handled with capture disabled and one with
\* capture enabled, the store idle, exactly the second one stored.
C9_Witness ==
    \E i, j \in Deliveries :
        /\ Accepted(i) /\ ~received[i].capture
        /\ Accepted(j) /\ received[j].capture
        /\ MsgIdOf(i) # MsgIdOf(j)
        /\ pending = {}
        /\ RowsOfDelivery(i) = {} /\ RowsOfDelivery(j) # {}
        /\ Len(telemetry) = 1

\* C10  End-to-end counts: every accepted Reading yields exactly one telemetry
\* broadcast and every saved Alert exactly one new_alert broadcast; and with
\* pressureReliefThreshold = 1.5 and capture enabled, the single Reading
\* {msg_id "a", flask_id 1, P_bar_abs 1.6, T_C 39.0}, once the store is idle,
\* has produced one row, one Alert (high_pressure, warning), one telemetry
\* broadcast and one new_alert broadcast.
ScenarioReading == normalizeTelemetryPayload(Payload("a", 1, 16, 39))

C10_EndToEndCounts ==
    /\ \A i \in Deliveries : Accepted(i) => Cardinality(TelemetryEvents(i)) = 1
    /\ \A k \in DOMAIN alertsTable :
          Cardinality({e \in DOMAIN wsLog :
                          wsLog[e].type = "new_alert" /\ wsLog[e].id = k}) = 1
    /\ ( /\ Len(received) = 1
         /\ received[1].data = ScenarioReading
         /\ received[1].capture
         /\ alertConfig.pressureReliefThreshold = RELIEF_THRESHOLD
         /\ Quiescent )
        => /\ Len(telemetry) = 1
           /\ Len(alertsTable) = 1
           /\ alertsTable[1].type = "high_pressure"
           /\ alertsTable[1].severity = "warning"
           /\ Cardinality(TelemetryEvents(1)) = 1
           /\ Cardinality(NewAlertEvents(1)) = 1

\* The alerts fired for delivery i by rule `type`: publications on the alert
\* topic (one per fired alert) and the alerts handed to the store.
PublishedOfType(i, type) == {k \in AlertsPublished(i) : mqttOut[k].kind = type}
PendingOfType(i, type) == {s \in AlertsPending(i) : s.alert.type = type}
RowsOfType(i, type) == {k \in AlertRows(i) : alertsTable[k].type = type}
FiredOfType(i, type) ==
    Cardinality(PendingOfType(i, type)) + Cardinality(RowsOfType(i, type))
ReliefThresholdNow == Coalesce(alertConfig.pressureReliefThreshold, RELIEF_THRESHOLD)

\* C11  Threshold strictness: a Reading evaluated with P_bar_abs equal to
\* pressureReliefThreshold fires no high_pressure alert; one evaluated with
\* P_bar_abs one step (0.1 bar) above it, and not above the hard ceiling,
\* fires exactly one high_pressure alert, of severity warning.
C11_ThresholdStrictness ==
    \A i \in Deliveries :
        Accepted(i) =>
            /\ received[i].data.P_bar_abs = ReliefThresholdNow
                  => /\ FiredOfType(i, "high_pressure") = 0
                     /\ PublishedOfType(i, "high_pressure") = {}
            /\ ( /\ received[i].data.P_bar_abs = ReliefThresholdNow + 1
                 /\ received[i].data.P_bar_abs <= HARD_CEILING )
                  => /\ FiredOfType(i, "high_pressure") = 1
                     /\ Cardinality(PublishedOfType(i, "high_pressure")) = 1
                     /\ \A s \in PendingOfType(i, "high_pressure") :
                            s.alert.severity = "warning"
                     /\ \A k \in RowsOfType(i, "high_pressure") :
                            alertsTable[k].severity = "warning"

\* C11 witness: under the restored configuration (threshold 1.0 bar) one
\* Reading at the threshold and one just above it were evaluated, and the
\* single alert of the second is stored.
C11_Witness ==
    /\ alertConfig # DefaultAlertConfig
    /\ \E i, j \in Deliveries :
          /\ Accepted(i) /\ received[i].data.P_bar_abs = ReliefThresholdNow
          /\ Accepted(j) /\ received[j].data.P_bar_abs = ReliefThresholdNow + 1
          /\ AlertRows(i) = {} /\ AlertsPending(i) = {}
          /\ Cardinality(RowsOfType(j, "high_pressure")) = 1

Runs == DOMAIN exportRuns
Finished(k) == exportRuns[k].done

\* C12  Window contiguity: the first window starts at T0 - EXPORT_INTERVAL,
\* every window ends where the next one starts, and the k-th window ends at
\* T0 + (k-1) * EXPORT_INTERVAL, so that after k ticks the windows cover
\* [T0 - EXPORT_INTERVAL, T0 + (k-1) * EXPORT_INTERVAL) without gap.
C12_WindowContiguity ==
    /\ \A k \in Runs :
          /\ k = 1 => exportRuns[k].startISO = BOOT_TIME - EXPORT_INTERVAL
          /\ exportRuns[k].endISO = BOOT_TIME + (k - 1) * EXPORT_INTERVAL
    /\ \A j, k \in Runs : k = j + 1 => exportRuns[j].endISO = exportRuns[k].startISO

\* C13  Exported windows do not overlap: every tick selects exactly the
\* persisted Readings with timestamp in [startISO, endISO), and no persisted
\* Reading is written into two files.
C13_WindowsDisjoint ==
    /\ \A k \in Runs :
          Finished(k) =>
              exportRuns[k].rows =
                  {r \in 1..exportRuns[k].seen :
                      /\ telemetry[r].timestamp >= exportRuns[k].startISO
                      /\ telemetry[r].timestamp < exportRuns[k].endISO}
    /\ \A f, g \in DOMAIN csvFiles :
          f # g => csvFiles[f].rows \cap csvFiles[g].rows = {}

TempMinNow == Coalesce(alertConfig.temperatureRange.min, TEMPERATURE_MIN)
TempMaxNow == Coalesce(alertConfig.temperatureRange.max, TEMPERATURE_MAX)
PressureInEnvelope(i) ==
    /\ received[i].data.P_bar_abs >= MIN_PRESSURE
    /\ received[i].data.P_bar_abs <= MAX_PRESSURE
TempInRange(i) ==
    /\ received[i].data.T_C >= TempMinNow
    /\ received[i].data.T_C <= TempMaxNow
AllPresent(i) == RequiredPresent(received[i].data)

\* C15  Validation boundary for temperature: a Reading that is otherwise
\* acceptable (all fields present, pressure in the envelope) is accepted when
\* T_C equals temperatureRange.min or temperatureRange.max and rejected when
\* T_C is below min or above max; a rejected Reading is not acknowledged.
C15_TemperatureBoundary ==
    \A i \in Deliveries :
        (AllPresent(i) /\ PressureInEnvelope(i)) =>
            /\ received[i].data.T_C \in {TempMinNow, TempMaxNow}
                  => (Accepted(i) /\ Acked(i))
            /\ (received[i].data.T_C < TempMinNow \/ received[i].data.T_C > TempMaxNow)
                  => (~Accepted(i) /\ ~Acked(i))

\* C15 witness: under the restored configuration (29..46) a Reading at the
\* upper bound was accepted and one a degree above it rejected.
C15_Witness ==
    /\ alertConfig # DefaultAlertConfig
    /\ \E i, j \in Deliveries :
          /\ received[i].data.T_C = TempMaxNow /\ Accepted(i)
          /\ received[j].data.T_C = TempMaxNow + 1 /\ ~Accepted(j)

\* C16  Required-field check: among the Readings whose present pressure and
\* temperature pass the range checks, the rejected ones are exactly those
\* with one of msg_id, assay_id, flask_id, ts, P_bar_abs, T_C undefined or
\* null; flask_id = 0, ts = 0 and msg_id = "" are present values.
RangeChecksPass(i) ==
    /\ Absent(received[i].data.P_bar_abs) \/ PressureInEnvelope(i)
    /\ Absent(received[i].data.T_C) \/ TempInRange(i)

C16_RequiredFields ==
    \A i \in Deliveries :
        RangeChecksPass(i) => (~Accepted(i) <=> ~AllPresent(i))

\* C16 witness: a Reading with flask_id = 0 was accepted and its station
\* state created, and a Reading with a null field was rejected.
C16_Witness ==
    \E i, j \in Deliveries :
        /\ received[i].data.flask_id = 0 /\ Accepted(i)
        /\ flaskStates[0].status = "active"
        /\ received[j].data.ts = NULLV /\ ~Accepted(j)

\* C17  Pressure envelope: a Reading that is otherwise acceptable (all fields
\* present, temperature in range) is accepted exactly when
\* MIN_PRESSURE <= P_bar_abs <= MAX_PRESSURE, whatever thresholds alertConfig
\* holds.
C17_PressureEnvelope ==
    \A i \in Deliveries :
        (AllPresent(i) /\ TempInRange(i)) => (Accepted(i) <=> PressureInEnvelope(i))

\* C17 witness: with pressureWarningThreshold restored as 1.8 bar, a Reading
\* of 2.0 bar was accepted and one of 2.1 bar rejected.
C17_Witness ==
    /\ alertConfig.pressureWarningThreshold < MAX_PRESSURE
    /\ \E i, j \in Deliveries :
          /\ received[i].data.P_bar_abs = MAX_PRESSURE /\ Accepted(i)
          /\ received[j].data.P_bar_abs = MAX_PRESSURE + 1 /\ ~Accepted(j)

\* Every alert made so far: handed to the store, stored, or broadcast.
AllSeverities ==
    {s.alert.severity : s \in {t \in pending : t.op \in {"insAlert", "insManualAlert"}}}
    \cup {alertsTable[k].severity : k \in DOMAIN alertsTable}
    \cup {wsLog[k].severity : k \in {e \in DOMAIN wsLog : wsLog[e].type = "new_alert"}}

PressureAlertSeverities(i) ==
    {s.alert.severity : s \in AlertsPending(i)}
    \cup {alertsTable[k].severity : k \in AlertRows(i)}
    \cup {wsLog[k].severity : k \in NewAlertEvents(i)}

\* C18  Pressure severity escalation: a Reading whose P_bar_abs exceeds both
\* pressureReliefThreshold and the hard ceiling produces a high_pressure
\* alert, and the pressure alerts produced for it have severity critical.
C18_SeverityEscalation ==
    \A i \in Deliveries :
        ( /\ received[i].data.P_bar_abs > ReliefThresholdNow
          /\ received[i].data.P_bar_abs > HARD_CEILING )
            => /\ Cardinality(PublishedOfType(i, "high_pressure")) = 1
               /\ PressureAlertSeverities(i) \subseteq {"critical"}

\* C20  Every alert that is stored, handed to the store or broadcast, made
\* from a Reading or by POST /api/alerts, has severity info, warning or
\* critical.
C20_SeverityDomain == AllSeverities \subseteq {"info", "warning", "critical"}

\* The condition of each rule of the evaluator, by alert type.
RuleHolds(type, data) ==
    CASE type = "high_pressure" -> data.P_bar_abs > ReliefThresholdNow
      [] type = "temperature_extreme" -> data.T_C < TempMinNow \/ data.T_C > TempMaxNow
      [] type = "pressure_relief" -> data.event = "relief"

RuleSeverity(type) == IF type = "pressure_relief" THEN "info" ELSE "warning"
RuleTypes == {"high_pressure", "temperature_extreme", "pressure_relief"}

\* C19  Alert rules are independent: the alerts the evaluator produces for a
\* Reading are exactly one per rule whose condition holds (high_pressure /
\* warning, temperature_extreme / warning, pressure_relief / info), each
\* saved and published once, and nothing else.
C19_RulesIndependent ==
    \A i \in Deliveries :
        /\ \A type \in RuleTypes :
              LET n == IF RuleHolds(type, received[i].data) THEN 1 ELSE 0
              IN  /\ Cardinality(PublishedOfType(i, type)) = n
                  /\ Cardinality(PendingOfType(i, type)) = n
                  /\ \A s \in PendingOfType(i, type) :
                        s.alert.severity = RuleSeverity(type)
        /\ \A s \in AlertsPending(i) : s.alert.type \in RuleTypes
        /\ \A k \in AlertsPublished(i) : mqttOut[k].kind \in RuleTypes

\* C19 witness: one Reading fired all three rules and another fired none.
C19_Witness ==
    \E i, j \in Deliveries :
        /\ Cardinality(AlertsPending(i)) = 3
        /\ Cardinality(AlertsPublished(i)) = 3
        /\ AlertsPending(j) = {} /\ AlertsPublished(j) = {}

\* The new_alert events of stored alerts (row id k) broadcast before client c
\* connected.
StoredAlertsBefore(c) ==
    {wsLog[e].id : e \in {x \in 1..clients[c].since :
                              wsLog[x].type = "new_alert" /\ wsLog[x].id # 0}}

HistoryIds(c) ==
    {clients[c].inbox[1].alerts[j].id : j \in DOMAIN clients[c].inbox[1].alerts}

\* C21  Alert persist+broadcast path: every alert, fired by the evaluator or
\* created by POST /api/alerts, once its INSERT has completed is in the store
\* and has been broadcast as new_alert with its row id, and (while no more
\* than INITIAL_ALERTS alerts exist) is in the alert history of the
\* initial_state of every subscriber that joins afterwards.
C21_AlertPath ==
    /\ \A k \in DOMAIN alertsTable :
          \E e \in DOMAIN wsLog : wsLog[e].type = "new_alert" /\ wsLog[e].id = k
    /\ \A c \in DOMAIN clients :
          Len(alertsTable) <= INITIAL_ALERTS
              => StoredAlertsBefore(c) \subseteq HistoryIds(c)

\* C22  Acknowledgement is monotonic: an alert row that an acknowledgement
\* has reached is acknowledged, whatever ran afterwards (further
\* acknowledgements of the same row included), and nothing but an
\* acknowledgement sets the flag.
C22_AckMonotonic ==
    /\ \A k \in DOMAIN alertsTable :
          alertsTable[k].acks >= 1 => alertsTable[k].acknowledged
    /\ \A k \in DOMAIN alertsTable :
          alertsTable[k].acknowledged => alertsTable[k].acks >= 1

\* C22 witness: a row was acknowledged twice and another alert was stored
\* after it.
C22_Witness ==
    \E k \in DOMAIN alertsTable :
        /\ alertsTable[k].acks = 2 /\ alertsTable[k].acknowledged
        /\ Len(alertsTable) > k

\* What client c was sent after its initial_state: the broadcasts made while
\* it was connected and reachable.
Until(c) == IF clients[c].until = -1 THEN Len(wsLog) ELSE clients[c].until
BroadcastsFor(c) == SubSeq(wsLog, clients[c].since + 1, Until(c))
AfterInitial(c) == SubSeq(clients[c].inbox, 2, Len(clients[c].inbox))

\* C23  Subscriber isolation: every subscriber receives every event
\* broadcast while it is open and reachable, whatever the state of the
\* other subscribers (closing, closed, connection lost), and every inbound
\* message is processed: broadcast, and acknowledged when accepted.
C23_SubscriberIsolation ==
    /\ \A c \in DOMAIN clients : AfterInitial(c) = BroadcastsFor(c)
    /\ \A i \in Deliveries :
          /\ TelemetryEvents(i) # {}
          /\ Accepted(i) => Acked(i)

\* C23 witness: an event was broadcast while an earlier subscriber had lost
\* its connection, another was closing, and a later one was open; the later
\* one received it and the next message was handled too.
C23_Witness ==
    \E b, c \in DOMAIN clients :
        /\ b < c
        /\ ~Reachable(clients[b]) /\ Reachable(clients[c])
        /\ clients[b].until < Len(wsLog)
        /\ clients[b].until >= clients[c].since
        /\ Len(clients[c].inbox) > 1 + (clients[b].until - clients[c].since)
        /\ Len(received) >= 2 /\ clients[b].until < Len(wsLog) - 2

\* The stations that had an accepted Reading before client c connected: those
\* of the deliveries it had seen and those of the alerts older than `received`.
PriorStations == {alertsTable[k].flask_id : k \in {r \in DOMAIN alertsTable :
                                                      alertsTable[r].d = 0}}
AcceptedBefore(c) == {i \in 1..clients[c].seen : Accepted(i)}
StationsBefore(c) == {FlaskOf(i) : i \in AcceptedBefore(c)} \cup PriorStations
LatestBefore(c, f) ==
    {i \in AcceptedBefore(c) :
        /\ FlaskOf(i) = f
        /\ \A j \in AcceptedBefore(c) : FlaskOf(j) = f => j <= i}
MostRecent(ids, n) == {k \in ids : Cardinality({j \in ids : j > k}) < n}

C27_StationStateFreshness ==
    /\ \A i \in Deliveries :
          (Accepted(i) /\ LastOfFlask(i)) =>
              LET st == flaskStates[FlaskOf(i)]
              IN  /\ st.assay_id = received[i].data.assay_id
                  /\ st.last_pressure = received[i].data.P_bar_abs
                  /\ st.last_temperature = received[i].data.T_C
                  /\ st.last_timestamp = received[i].data.ts
                  /\ st.relief_count = OrZero(received[i].data.relief_count)
    /\ \A f \in Stations :
          (\A i \in Deliveries : Accepted(i) => FlaskOf(i) # f) =>
              flaskStates[f] = IF f \in PriorStations THEN PriorState ELSE NoFlask

\* What the pipeline does with an accepted Reading, from the Reading alone:
\* two telemetry broadcasts, one ack, one alert saved and published per rule
\* that holds, and its values in the StationState while it is the station's
\* latest.
StoreFailed(i) == [d |-> i, what |-> "store"] \in errorLog
RulesApplied(i) ==
    \A type \in RuleTypes :
        LET n == IF RuleHolds(type, received[i].data) THEN 1 ELSE 0
        IN  /\ Cardinality(PublishedOfType(i, type)) = n
            /\ FiredOfType(i, type) = n
StationShows(i) ==
    LET st == flaskStates[FlaskOf(i)]
    IN  /\ st.status = "active"
        /\ st.last_pressure = received[i].data.P_bar_abs
        /\ st.last_temperature = received[i].data.T_C
        /\ st.last_timestamp = received[i].data.ts
Observed(i) ==
    /\ Cardinality(TelemetryEvents(i)) = 2
    /\ Acked(i)
    /\ RulesApplied(i)
    /\ LastOfFlask(i) => StationShows(i)

\* C25  Storage outage does not starve observers: a Reading whose INSERT
\* failed for a reason other than duplication has no row, and its
\* StationState update, its alerts, its telemetry broadcasts and its ack
\* took place; nothing but telemetry and new_alert events is ever broadcast.
C25_StorageOutage ==
    /\ \A e \in DOMAIN wsLog : wsLog[e].type \in {"telemetry", "new_alert"}
    /\ \A i \in Deliveries :
          StoreFailed(i) =>
              /\ Accepted(i) /\ received[i].capture
              /\ RowsOfDelivery(i) = {} /\ ~InsertPending(i)
              /\ Observed(i)

\* C25 witness: the INSERT of a Reading that fires the pressure rule failed,
\* its alert is stored, its msg_id has no row, and the store is idle.
C25_Witness ==
    \E i \in Deliveries :
        /\ StoreFailed(i)
        /\ RowsOfMsg(MsgIdOf(i)) = {}
        /\ RowsOfType(i, "high_pressure") # {}
        /\ pending = {}

C28_OrderPreserved ==
    \A i, j \in Deliveries :
        (i < j /\ Accepted(i) /\ Accepted(j) /\ FlaskOf(i) = FlaskOf(j)) =>
            /\ \A a \in TelemetryEvents(i), b \in TelemetryEvents(j) : a < b
            /\ \A a, b \in DOMAIN mqttOut :
                  ( /\ mqttOut[a].topic = "ack" /\ mqttOut[a].d = i
                    /\ mqttOut[b].topic = "ack" /\ mqttOut[b].d = j ) => a < b
            /\ received[i].capture =>
                  \/ InsertPending(i)
                  \/ RowsOfMsg(MsgIdOf(i)) # {}
                  \/ StoreFailed(i)
            /\ LastOfFlask(j) =>
                  /\ StationShows(j)
                  /\ StationShows(i) =>
                        /\ received[i].data.P_bar_abs = received[j].data.P_bar_abs
                        /\ received[i].data.T_C = received[j].data.T_C

\* C28 witness: two different Readings of one station were both handed to
\* the store, and the store completed the later one first.
C28_Witness ==
    \E i, j \in Deliveries :
        /\ i < j /\ Accepted(i) /\ Accepted(j) /\ FlaskOf(i) = FlaskOf(j)
        /\ received[i].data.P_bar_abs # received[j].data.P_bar_abs
        /\ \E a \in RowsOfDelivery(i), b \in RowsOfDelivery(j) : b < a

\* The configuration that holds exactly what a body gives: a field the body
\* leaves out is unset or at the module's default.
GivenOrDefault(v, now, default) == IF Absent(v) THEN now \in {UNDEFINED, default} ELSE now = v
OnlyBody(body, cfg) ==
    /\ GivenOrDefault(body.pressure_relief_threshold, cfg.pressureReliefThreshold,
                      DefaultAlertConfig.pressureReliefThreshold)
    /\ GivenOrDefault(body.pressure_warning_threshold, cfg.pressureWarningThreshold,
                      DefaultAlertConfig.pressureWarningThreshold)
    /\ GivenOrDefault(body.temp_min, cfg.temperatureRange.min,
                      DefaultAlertConfig.temperatureRange.min)
    /\ GivenOrDefault(body.temp_max, cfg.temperatureRange.max,
                      DefaultAlertConfig.temperatureRange.max)
ConfigPending == \E s \in pending : s.op = "repConfig"

\* C29  AlertConfig updates are total replacements: the configuration a
\* replace command with body B leaves consists only of the values given in
\* B; no value of the configuration before it survives.
C29_TotalReplacement ==
    \A k \in DOMAIN configLog : OnlyBody(configLog[k].body, configLog[k].after)

\* C30  AlertConfig durability: while no update is in flight the in-memory
\* alertConfig equals the row of alert_config, and an update that answered
\* with an error left alertConfig as it was before the command.
C30_ConfigDurability ==
    /\ ~ConfigPending => alertConfig = alert_config
    /\ \A k \in DOMAIN configLog :
          (k = Len(configLog) /\ configLog[k].status = "error") =>
              alertConfig = configLog[k].before

\* C31  Outbound alert namespace: every alert published for a Reading goes
\* out on the alert topic of the namespace, assay and station the Reading
\* came in on.
C31_AlertNamespace ==
    \A k \in DOMAIN mqttOut :
        (mqttOut[k].topic = "alert" /\ mqttOut[k].d \in Deliveries) =>
            LET i == mqttOut[k].d
            IN  /\ mqttOut[k].ns = received[i].namespace
                /\ mqttOut[k].assay = received[i].data.assay_id
                /\ mqttOut[k].station = received[i].data.flask_id

\* The first of the values that is not undefined (the last one if none is).
FirstDefined(a, b, c) ==
    IF a # UNDEFINED THEN a ELSE IF b # UNDEFINED THEN b ELSE c

\* C32  Codec alias resolution: the Reading normalize returns has, for
\* temperature, observedAt and accumulation rate, the value of the canonical
\* key when the payload has it and otherwise that of the first alias it has
\* (C before degC); every other key is as in the payload, and the payload
\* object is as it was parsed.
C32_AliasResolution ==
    \A i \in Deliveries :
        received[i].raw = "record" =>
            LET s == received[i].sent
                n == received[i].data
            IN  /\ n.T_C = FirstDefined(s.T_C, s.C, s.degC)
                /\ n.ts = FirstDefined(s.ts, s.timestamp, UNDEFINED)
                /\ n.accum_bar_per_h =
                      FirstDefined(s.accum_bar_per_h, s.accum_bar_per_hr, UNDEFINED)
                /\ s.T_C # UNDEFINED => n.T_C = s.T_C
                /\ s.ts # UNDEFINED => n.ts = s.ts
                /\ s.accum_bar_per_h # UNDEFINED => n.accum_bar_per_h = s.accum_bar_per_h
                /\ n.C = s.C /\ n.degC = s.degC /\ n.timestamp = s.timestamp
                /\ n.accum_bar_per_hr = s.accum_bar_per_hr
                /\ n.msg_id = s.msg_id /\ n.assay_id = s.assay_id
                /\ n.flask_id = s.flask_id /\ n.P_bar_abs = s.P_bar_abs
                /\ received[i].payload = s

\* C32 witness: one payload had T_C and both aliases and kept T_C; another
\* had only the two aliases and got C.
C32_Witness ==
    \E i, j \in Deliveries :
        /\ received[i].sent.T_C = 39 /\ received[i].sent.C = 38
        /\ received[i].sent.degC = 37 /\ received[i].data.T_C = 39
        /\ received[j].sent.T_C = UNDEFINED /\ received[j].sent.C = 38
        /\ received[j].sent.degC = 37 /\ received[j].data.T_C = 38

\* C33  Codec defaults: a record payload without relief_count gives a
\* Reading with relief_count 0, and one without event gives a Reading whose
\* event is "none".
C33_CodecDefaults ==
    \A i \in Deliveries :
        received[i].raw = "record" =>
            /\ received[i].sent.relief_count = UNDEFINED =>
                  received[i].data.relief_count = 0
            /\ received[i].sent.event = "undefined" =>
                  received[i].data.event = "none"

\* C34  The exporter's watermark never decreases and no two ticks export
\* from the same window start, also with two exports in flight at once.
C34_WatermarkMonotonic ==
    /\ \A k \in Runs :
          (Finished(k) /\ ~exportRuns[k].failed) =>
              lastCsvExportAt >= exportRuns[k].endISO
    /\ \A j, k \in Runs :
          (j < k /\ ~exportRuns[j].failed) =>
              exportRuns[j].startISO # exportRuns[k].startISO

\* A tick that fired with no export in flight, and one whose export also
\* ended before the next tick fired.
Alone(k) == \A j \in 1..(k - 1) : j \in exportRuns[k].doneBefore
Solo(k) == Alone(k) /\ \A j \in Runs : j > k => k \in exportRuns[j].doneBefore

ExportInFlight == \E s \in pending : s.op = "selExport"
Exported(r) == \E f \in DOMAIN csvFiles : r \in csvFiles[f].rows
C36_ExportCompleteness ==
    \A r \in DOMAIN telemetry :
        (/\ telemetry[r].timestamp >= BOOT_TIME - EXPORT_INTERVAL
         /\ telemetry[r].timestamp < lastCsvExportAt
         /\ ~ExportInFlight)
            => Exported(r)


\* C37  The Validator and the Alert Evaluator read the same temperature
\* bounds within one message: no Reading the Validator accepted has a
\* temperature_extreme alert waiting at the store, stored, broadcast or
\* published, whatever POST /api/alerts/config did before or after it, and
\* every temperature_extreme alert in the store or in the broadcast stream
\* comes from POST /api/alerts (d = 0 marks an alert no delivery made).
Thermal(type) == type = "temperature_extreme"
C37_TemperatureAgreement ==
    /\ \A i \in Deliveries :
          Accepted(i) =>
              \A k \in DOMAIN mqttOut :
                  (mqttOut[k].topic = "alert" /\ mqttOut[k].d = i)
                      => ~Thermal(mqttOut[k].kind)
    /\ \A k \in DOMAIN alertsTable :
          Thermal(alertsTable[k].type) => alertsTable[k].d = 0
    /\ \A k \in DOMAIN wsLog :
          (wsLog[k].type = "new_alert" /\ Thermal(wsLog[k].kind)) => wsLog[k].d = 0
    /\ \A s \in pending : s.op = "insAlert" => ~Thermal(s.alert.type)

\* C37 witness: a Reading at 48 degrees was accepted, which only the range
\* widened by POST /api/alerts/config allows, and a temperature_extreme alert
\* created by hand is in the store and in the broadcast stream.
C37_Witness ==
    /\ \E i \in Deliveries : Accepted(i) /\ received[i].data.T_C = 48
    /\ \E k \in DOMAIN alertsTable :
          Thermal(alertsTable[k].type) /\ alertsTable[k].d = 0
    /\ \E k \in DOMAIN wsLog :
          wsLog[k].type = "new_alert" /\ Thermal(wsLog[k].kind)


\* C38  The capture-status query agrees with the gate: whenever the pipeline
\* would persist an accepted Reading (telemetryCaptureEnabled), the query
\* answers enabled = true with the record of the session that is open, and
\* whenever it answers enabled = false no Reading is being persisted; this
\* also between the command that opens capture and the store's answer to
\* the session INSERT.
C38_CaptureStatusAgrees ==
    /\ telemetryCaptureEnabled = CaptureStatusEnabled
    /\ CaptureStatusEnabled =>
          /\ currentCaptureSessionId \in DOMAIN capture_sessions
          /\ capture_sessions[currentCaptureSessionId].status = "enabled"


\* C39  Alert broadcasts follow persistence: every new_alert event in the
\* broadcast stream carries the id the store assigned, and the row with that
\* id is the alert the event describes; an alert that is not (or not yet) in
\* the store has not been broadcast.
C39_BroadcastAfterPersist ==
    \A e \in DOMAIN wsLog :
        wsLog[e].type = "new_alert" =>
            /\ wsLog[e].id \in DOMAIN alertsTable
            /\ alertsTable[wsLog[e].id].type = wsLog[e].kind
            /\ alertsTable[wsLog[e].id].d = wsLog[e].d


\* C40  Alternate API server: a telemetry message has a telemetry_update
\* emit and alerts only when its own row was inserted; a message whose
\* msg_id was already stored, or whose insert failed, has no emit and no
\* alert, and a message without msg_id, assay_id, flask_id or timestamp never
\* reaches the store.
ApiDeliveries == DOMAIN apiReceived
ApiRowOf(i) == \E k \in DOMAIN fermentation_data : fermentation_data[k].d = i
ApiEmitted(i) ==
    \E e \in DOMAIN ioLog : ioLog[e].event = "telemetry_update" /\ ioLog[e].d = i
ApiAlerted(i) ==
    \/ \E s \in apiPending : s.op = "insAlert" /\ s.d = i
    \/ \E k \in DOMAIN apiAlerts : apiAlerts[k].d = i
    \/ \E e \in DOMAIN ioLog : ioLog[e].event = "alert_update" /\ ioLog[e].d = i
ApiInsertPending(i) == \E s \in apiPending : s.op = "insTelemetry" /\ s.d = i
C40_EmitAfterInsert ==
    \A i \in ApiDeliveries :
        /\ (ApiEmitted(i) \/ ApiAlerted(i)) =>
              ApiRowOf(i) /\ apiReceived[i].outcome = "inserted"
        /\ apiReceived[i].outcome \in {"duplicate", "error"} =>
              ~ApiEmitted(i) /\ ~ApiAlerted(i) /\ ~ApiRowOf(i)
        /\ apiReceived[i].stored =>
              apiReceived[i].outcome \in {"pending", "duplicate", "error", "dropped"}
        /\ RequiredMissing(apiReceived[i].data) =>
              /\ apiReceived[i].outcome = "dropped"
              /\ ~ApiInsertPending(i) /\ ~ApiRowOf(i)
              /\ ~ApiEmitted(i) /\ ~ApiAlerted(i)
        /\ apiReceived[i].outcome = "inserted" => ApiEmitted(i)

\* C40 witness: one message was inserted, emitted and has an alert in the
\* store, and a second message with the same msg_id, which would fire the
\* same alert, was refused by the store.
C40_Witness ==
    \E i, j \in ApiDeliveries :
        /\ apiReceived[i].outcome = "inserted" /\ ApiEmitted(i)
        /\ \E k \in DOMAIN apiAlerts : apiAlerts[k].d = i
        /\ apiReceived[j].stored /\ apiReceived[j].outcome = "duplicate"
        /\ apiCheckAlerts(apiReceived[j].data, j) # <<>>

====
